---- MODULE Spec2Model ----
(***************************************************************************)
(* Procedural dungeon generator of Kwak: src/src/systems/roomGenerator.ts, *)
(* classes SeededRandom and RoomGenerator (the graph-based generator that  *)
(* starts at line 598).  One RoomGenerator instance is modelled at a time; *)
(* after it has returned (or thrown) a second, independent instance may be *)
(* constructed from the same constructor argument.                         *)
(***************************************************************************)
EXTENDS Integers, Sequences, FiniteSets, TLC

VARIABLES
    arg,            \* the RoomGenerationConfig handed to the constructor
    config,         \* this.config (defaults filled in, seed resolved)
    seed,           \* this.rng.seed
    rooms,          \* this.rooms
    corridors,      \* this.corridors
    graph,          \* this.graph (keys are iterated in the order of rooms)
    roomIdCounter,  \* this.roomIdCounter
    attempts,       \* local `attempts` of generateRooms
    classification, \* local `classification` of generateDungeon: <<>> or <<c>>
    result,         \* the Dungeon returned by generateDungeon: <<>> or <<d>>
    pc,             \* position inside generateDungeon
    first,          \* <<>> or <<[arg, pc, result]>> of the earlier instance
    answer,         \* <<>> or <<r>>, r the last call of a query and its value
    calls           \* number of calls made on the object since it was built

vars == <<arg, config, seed, rooms, corridors, graph, roomIdCounter,
          attempts, classification, result, pc, first, answer, calls>>

(***************************************************************************)
(* Bounds of the model.                                                    *)
(***************************************************************************)
MaxSeed == 30
MaxRoomCount == 5
MaxCalls == 3
MaxQueries == 1
MaxQuerySeed == 7
BigMargin == 7
MaxCount == 3
MidDistance == 120
FarDistance == 5000
FewAttempts == 2
MaxVariantSeed == 1

(***************************************************************************)
(* SeededRandom.  JavaScript numbers are IEEE-754 doubles: the product     *)
(* seed * 1103515245 needs up to 62 bits and is rounded to 53 significant  *)
(* bits (ties to even), and so is the sum with 12345; the remainder is     *)
(* exact.  Numbers are kept as pairs <<H, L>> standing for H * 2^31 + L so *)
(* that no intermediate value leaves the 32-bit integers of the checker.   *)
(* The remainder % keeps the sign of the dividend, so a negative state     *)
(* steps to a state in -(2^31 - 1) .. 0.  States are modelled for          *)
(* -(2^31 - 1) .. 2^31 - 1.                                                *)
(***************************************************************************)
LcgMultiplier == 1103515245
LcgIncrement == 12345
LcgModulusMinus1 == 2147483647

RECURSIVE Pow2(_)
Pow2(k) == IF k = 0 THEN 1 ELSE 2 * Pow2(k - 1)

RECURSIVE BitLen(_)
BitLen(n) == IF n = 0 THEN 0 ELSE 1 + BitLen(n \div 2)

\* s * LcgMultiplier as <<H, L>>, by 15-bit limbs.
MulHL(s) ==
    LET B  == 32768
        s0 == s % B
        s1 == (s \div B) % B
        s2 == s \div (B * B)
        a0 == LcgMultiplier % B
        a1 == (LcgMultiplier \div B) % B
        a2 == LcgMultiplier \div (B * B)
        t0 == s0 * a0
        t1 == s0 * a1 + s1 * a0 + t0 \div B
        t2 == s0 * a2 + s1 * a1 + s2 * a0 + t1 \div B
        t3 == s1 * a2 + s2 * a1 + t2 \div B
        t4 == s2 * a2 + t3 \div B
        d2 == t2 % B
    IN  << (d2 \div 2) + (t3 % B) * 16384 + t4 * 536870912,
           (t0 % B) + (t1 % B) * B + (d2 % 2) * (B * B) >>

\* <<H, L>> rounded to 53 significant bits, ties to even.
Round53(hl) ==
    LET H    == hl[1]
        L    == hl[2]
        bits == IF H = 0 THEN 0 ELSE 31 + BitLen(H)
        k    == IF bits > 53 THEN bits - 53 ELSE 0
        p    == Pow2(k)
        low  == L % p
        base == L - low
        up   == 2 * low > p \/ (2 * low = p /\ k > 0 /\ (base \div p) % 2 = 1)
    IN  IF ~up THEN <<H, base>>
        ELSE IF base > LcgModulusMinus1 - p THEN <<H + 1, 0>>
        ELSE <<H, base + p>>

\* <<H, L>> + c for 0 <= c < 2^31, exact.
AddHL(hl, c) ==
    IF hl[2] > LcgModulusMinus1 - c
    THEN <<hl[1] + 1, hl[2] - (LcgModulusMinus1 - c) - 1>>
    ELSE <<hl[1], hl[2] + c>>

\* <<H, L>> - c for 0 <= c < 2^31 and <<H, L>> >= c, exact.
SubHL(hl, c) ==
    IF hl[2] >= c
    THEN <<hl[1], hl[2] - c>>
    ELSE <<hl[1] - 1, hl[2] + (LcgModulusMinus1 - c) + 1>>

\* this.seed = (this.seed * 1103515245 + 12345) % 2147483648
\* For s < 0 the product is -(|s| * 1103515245) rounded, the sum is
\* -(that - 12345) rounded, and the remainder is minus the remainder of the
\* magnitude.
LcgStep(s) ==
    IF s >= 0
    THEN Round53(AddHL(Round53(MulHL(s)), LcgIncrement))[2]
    ELSE -(Round53(SubHL(Round53(MulHL(-s)), LcgIncrement))[2])

\* floor(s / 2^31 * n): Math.floor(this.next() * n) for the state s after
\* the step; s / 2^31 and its product with a small n are exact in doubles.
FloorMul(s, n) == ((s \div 65536) * n + ((s % 65536) * n) \div 65536) \div 32768

\* nextInt(min, max) on the state s reached by next()
NextIntOf(s, min, max) == FloorMul(s, max - min + 1) + min


(***************************************************************************)
(* Configuration.  A field the caller leaves out is Undefined; the         *)
(* constructor fills in the default (config.x ?? default).                 *)
(***************************************************************************)
Undefined == -1

GameConfigMaxRooms == 5
GameConfigRoomWidth == 20
GameConfigTileSize == 32
DifficultyScalingDefault == 1

\* Values Date.now() may take when no seed is given (stand-ins outside the
\* range of the explicit seeds).
NowValues == {MaxSeed + 1, MaxSeed + 2}

Seeds == 0 .. MaxSeed

\* new RoomGenerator({roomCount: rc, seed: s}): every other field defaulted
ArgDefaults(rc, s) ==
    [roomCount |-> rc, minRoomSize |-> Undefined, maxRoomSize |-> Undefined,
     mapWidth |-> Undefined, mapHeight |-> Undefined, roomSpacing |-> Undefined,
     corridorWidth |-> Undefined, loopEdgePercentage |-> Undefined,
     eliteRoomPercentage |-> Undefined, secretRoomChance |-> Undefined,
     seed |-> s]

\* The call of GameScene.create: a labyrinth of 2 * maxRooms rooms
ArgGameScene(s) ==
    [ArgDefaults(GameConfigMaxRooms * 2, s) EXCEPT
        !.loopEdgePercentage = 40, !.mapWidth = 120, !.mapHeight = 120]

\* A small crowded map on which candidates are rejected, the attempt budget
\* can run out, and a secret room is always requested
ArgCrowded(rc, s) ==
    [roomCount |-> rc, minRoomSize |-> 6, maxRoomSize |-> 8,
     mapWidth |-> 26, mapHeight |-> 26, roomSpacing |-> 1,
     corridorWidth |-> 1, loopEdgePercentage |-> 50,
     eliteRoomPercentage |-> 30, secretRoomChance |-> 100,
     seed |-> s]

\* Ten rooms of which the share p is to be made Elite
ArgElite(p, s) ==
    [ArgDefaults(GameConfigMaxRooms * 2, s) EXCEPT !.eliteRoomPercentage = p]

\* The crowded map with the secret room switched off
ArgNoSecret(s) == [ArgCrowded(3, s) EXCEPT !.secretRoomChance = 0]

Args ==
    LET counts == (0 .. MaxRoomCount) \cup {Undefined}
        seeds  == Seeds \cup {Undefined}
    IN  {ArgDefaults(rc, s) : rc \in counts, s \in seeds}
        \cup {ArgCrowded(rc, s) : rc \in counts, s \in seeds}
        \cup {ArgGameScene(s) : s \in seeds}
        \cup {ArgDefaults(2 * GameConfigMaxRooms, s) : s \in seeds}
        \cup {ArgElite(p, s) : p \in {30, 100}, s \in 0 .. MaxVariantSeed}
        \cup {ArgNoSecret(s) : s \in 0 .. MaxVariantSeed}

\* config.x ?? d
OrDefault(v, d) == IF v = Undefined THEN d ELSE v

\* Variant of the constructor that always seeds from the clock
ResolveConfigClockSeed(a, now) ==
    [roomCount           |-> OrDefault(a.roomCount, GameConfigMaxRooms),
     minRoomSize         |-> OrDefault(a.minRoomSize, 6),
     maxRoomSize         |-> OrDefault(a.maxRoomSize, GameConfigRoomWidth),
     mapWidth            |-> OrDefault(a.mapWidth, 100),
     mapHeight           |-> OrDefault(a.mapHeight, 100),
     roomSpacing         |-> OrDefault(a.roomSpacing, 2),
     corridorWidth       |-> OrDefault(a.corridorWidth, 3),
     loopEdgePercentage  |-> OrDefault(a.loopEdgePercentage, 15),
     eliteRoomPercentage |-> OrDefault(a.eliteRoomPercentage, 10),
     secretRoomChance    |-> OrDefault(a.secretRoomChance, 5),
     seed                |-> now]

\* RoomGenerator.constructor: this.config
ResolveConfig(a, now) ==
    [roomCount           |-> OrDefault(a.roomCount, GameConfigMaxRooms),
     minRoomSize         |-> OrDefault(a.minRoomSize, 6),
     maxRoomSize         |-> OrDefault(a.maxRoomSize, GameConfigRoomWidth),
     mapWidth            |-> OrDefault(a.mapWidth, 100),
     mapHeight           |-> OrDefault(a.mapHeight, 100),
     roomSpacing         |-> OrDefault(a.roomSpacing, 2),
     corridorWidth       |-> OrDefault(a.corridorWidth, 3),
     loopEdgePercentage  |-> OrDefault(a.loopEdgePercentage, 15),
     eliteRoomPercentage |-> OrDefault(a.eliteRoomPercentage, 10),
     secretRoomChance    |-> OrDefault(a.secretRoomChance, 5),
     seed                |-> OrDefault(a.seed, now)]

(***************************************************************************)
(* Step 1: room placement.                                                 *)
(***************************************************************************)
\* Room literal; centerX2, centerY2 are twice centerX, centerY (the centre
\* x + width / 2 is a half-integer when the width is odd).
MakeRoom(id, x, y, width, height, centerX2, centerY2, type) ==
    [id |-> id, x |-> x, y |-> y, width |-> width, height |-> height,
     centerX2 |-> centerX2, centerY2 |-> centerY2, type |-> type, depth |-> 0]

\* createRandomRoom: the four draws and the candidate; <<room, seed after>>
CreateRandomRoom(cfg, s, id) ==
    LET s1     == LcgStep(s)
        width  == NextIntOf(s1, cfg.minRoomSize, cfg.maxRoomSize)
        s2     == LcgStep(s1)
        height == NextIntOf(s2, cfg.minRoomSize, cfg.maxRoomSize)
        s3     == LcgStep(s2)
        x      == NextIntOf(s3, 0, cfg.mapWidth - width)
        s4     == LcgStep(s3)
        y      == NextIntOf(s4, 0, cfg.mapHeight - height)
    IN  << MakeRoom(id, x, y, width, height, 2 * x + width, 2 * y + height,
                    "COMBAT"), s4 >>

\* Variant of the overlap test that leaves the spacing out
OverlapsNoSpacing(room, existing, spacing) ==
    /\ room.x < existing.x + existing.width
    /\ room.x + room.width > existing.x
    /\ room.y < existing.y + existing.height
    /\ room.y + room.height > existing.y

\* The test of hasOverlap against one existing room
Overlaps(room, existing, spacing) ==
    /\ room.x - spacing < existing.x + existing.width
    /\ room.x + room.width + spacing > existing.x
    /\ room.y - spacing < existing.y + existing.height
    /\ room.y + room.height + spacing > existing.y

\* Variant of hasOverlap that also turns down a candidate when no room has
\* been accepted yet
HasOverlapOrAlone(room, rs, spacing) ==
    rs = <<>> \/ \E i \in 1 .. Len(rs) : Overlaps(room, rs[i], spacing)

HasOverlap(room, rs, spacing) ==
    \E i \in 1 .. Len(rs) : Overlaps(room, rs[i], spacing)

(***************************************************************************)
(* Step 2: connectivity graph.  An edge weight is kept as four times the   *)
(* squared distance of the centres: Math.sqrt is strictly increasing on    *)
(* these values, so every comparison of weights is unchanged.              *)
(***************************************************************************)
Weight(room1, room2) ==
    (room2.centerX2 - room1.centerX2) * (room2.centerX2 - room1.centerX2)
    + (room2.centerY2 - room1.centerY2) * (room2.centerY2 - room1.centerY2)

\* The nested loops of computeDelaunayTriangulation, in push order
RECURSIVE PairEdges(_, _, _)
PairEdges(rs, i, j) ==
    IF i > Len(rs) THEN <<>>
    ELSE IF j > Len(rs) THEN PairEdges(rs, i + 1, i + 2)
    ELSE << [room1Id |-> rs[i].id, room2Id |-> rs[j].id,
             weight |-> Weight(rs[i], rs[j])] >>
         \o PairEdges(rs, i, j + 1)

\* edges.sort((a, b) => a.weight - b.weight): stable, ascending
RECURSIVE InsertEdge(_, _)
InsertEdge(sorted, e) ==
    IF sorted = <<>> THEN <<e>>
    ELSE IF sorted[Len(sorted)].weight <= e.weight THEN Append(sorted, e)
    ELSE Append(InsertEdge(SubSeq(sorted, 1, Len(sorted) - 1), e),
                sorted[Len(sorted)])

RECURSIVE SortEdges(_)
SortEdges(es) ==
    IF es = <<>> THEN <<>>
    ELSE InsertEdge(SortEdges(SubSeq(es, 1, Len(es) - 1)), es[Len(es)])

ComputeDelaunayTriangulation(rs) == SortEdges(PairEdges(rs, 1, 2))

\* Variant of the inner loop that keeps the heaviest connecting edge
RECURSIVE MinCrossingEdgeHeaviest(_, _, _, _)
MinCrossingEdgeHeaviest(edges, i, visited, minEdge) ==
    IF i > Len(edges) THEN minEdge
    ELSE LET edge     == edges[i]
             hasRoom1 == edge.room1Id \in visited
             hasRoom2 == edge.room2Id \in visited
             better   == /\ hasRoom1 # hasRoom2
                         /\ (minEdge = <<>> \/ edge.weight > minEdge[1].weight)
         IN  MinCrossingEdgeHeaviest(edges, i + 1, visited,
                                     IF better THEN <<edge>> ELSE minEdge)

\* The inner for loop of computeMinimumSpanningTree: <<>> (null) or <<minEdge>>
RECURSIVE MinCrossingEdge(_, _, _, _)
MinCrossingEdge(edges, i, visited, minEdge) ==
    IF i > Len(edges) THEN minEdge
    ELSE LET edge     == edges[i]
             hasRoom1 == edge.room1Id \in visited
             hasRoom2 == edge.room2Id \in visited
             better   == /\ hasRoom1 # hasRoom2
                         /\ (minEdge = <<>> \/ edge.weight < minEdge[1].weight)
         IN  MinCrossingEdge(edges, i + 1, visited,
                             IF better THEN <<edge>> ELSE minEdge)

\* The while loop of computeMinimumSpanningTree
RECURSIVE PrimLoop(_, _, _, _)
PrimLoop(edges, n, visited, mstEdges) ==
    IF Cardinality(visited) >= n THEN mstEdges
    ELSE LET minEdge == MinCrossingEdge(edges, 1, visited, <<>>)
         IN  IF minEdge = <<>> THEN mstEdges
             ELSE PrimLoop(edges, n,
                           visited \cup {minEdge[1].room1Id, minEdge[1].room2Id},
                           Append(mstEdges, minEdge[1]))

\* Variant of Prim's loop that stops one room early
ComputeMinimumSpanningTreeShort(rs, edges) ==
    IF Len(rs) = 0 THEN <<>>
    ELSE PrimLoop(edges, Len(rs) - 1, {rs[1].id}, <<>>)

ComputeMinimumSpanningTree(rs, edges) ==
    IF Len(rs) = 0 THEN <<>>
    ELSE PrimLoop(edges, Len(rs), {rs[1].id}, <<>>)

EdgesEqual(e1, e2) ==
    \/ (e1.room1Id = e2.room1Id /\ e1.room2Id = e2.room2Id)
    \/ (e1.room1Id = e2.room2Id /\ e1.room2Id = e2.room1Id)

\* this.graph.get(id)?.push(other)
PushNeighbor(g, id, other) ==
    IF id \in DOMAIN g THEN [g EXCEPT ![id] = Append(@, other)] ELSE g

\* Variant of addEdgeToGraph that records the edge at its first end only
AddEdgeToGraphOneWay(g, room1Id, room2Id) == PushNeighbor(g, room1Id, room2Id)

AddEdgeToGraph(g, room1Id, room2Id) ==
    PushNeighbor(PushNeighbor(g, room1Id, room2Id), room2Id, room1Id)

RECURSIVE AddEdges(_, _, _)
AddEdges(g, es, count) ==
    IF count <= 0 \/ es = <<>> THEN g
    ELSE AddEdges(AddEdgeToGraph(g, es[1].room1Id, es[1].room2Id),
                  Tail(es), count - 1)

Min(a, b) == IF a < b THEN a ELSE b
Max(a, b) == IF a > b THEN a ELSE b

\* Variant of the filter that keeps the tree edges among the candidates
RemainingEdgesUnfiltered(triangulationEdges, mstEdges) == triangulationEdges

RemainingEdges(triangulationEdges, mstEdges) ==
    SelectSeq(triangulationEdges,
              LAMBDA e : ~ \E k \in 1 .. Len(mstEdges) : EdgesEqual(e, mstEdges[k]))

\* Variant of buildConnectivityGraph that takes its loop edges from the heavy
\* end of the remaining candidates
BuildConnectivityGraphHeavyLoops(rs, loopEdgePercentage) ==
    LET empty              == [id \in {rs[i].id : i \in 1 .. Len(rs)} |-> <<>>]
        triangulationEdges == ComputeDelaunayTriangulation(rs)
        mstEdges           == ComputeMinimumSpanningTree(rs, triangulationEdges)
        withTree           == AddEdges(empty, mstEdges, Len(mstEdges))
        remainingEdges     == RemainingEdges(triangulationEdges, mstEdges)
        loopCount          == Min((Len(remainingEdges) * loopEdgePercentage) \div 100,
                                  Len(remainingEdges))
    IN  AddEdges(withTree,
                 SubSeq(remainingEdges, Len(remainingEdges) - loopCount + 1,
                        Len(remainingEdges)),
                 loopCount)

BuildConnectivityGraph(rs, loopEdgePercentage) ==
    LET empty              == [id \in {rs[i].id : i \in 1 .. Len(rs)} |-> <<>>]
        triangulationEdges == ComputeDelaunayTriangulation(rs)
        mstEdges           == ComputeMinimumSpanningTree(rs, triangulationEdges)
        withTree           == AddEdges(empty, mstEdges, Len(mstEdges))
        remainingEdges     == RemainingEdges(triangulationEdges, mstEdges)
        loopCount          == (Len(remainingEdges) * loopEdgePercentage) \div 100
    IN  AddEdges(withTree, remainingEdges, Min(loopCount, Len(remainingEdges)))

(***************************************************************************)
(* Step 3: corridors.                                                      *)
(***************************************************************************)
FindRoom(rs, id) ==
    LET hits == SelectSeq(rs, LAMBDA r : r.id = id)
    IN  IF hits = <<>> THEN <<>> ELSE <<hits[1]>>

FloorCenterX(room) == room.centerX2 \div 2
FloorCenterY(room) == room.centerY2 \div 2

Segment(x1, y1, x2, y2, room1Id, room2Id) ==
    [x1 |-> x1, y1 |-> y1, x2 |-> x2, y2 |-> y2,
     room1Id |-> room1Id, room2Id |-> room2Id]

\* Variant of createCorridor whose second leg starts at the first room's
\* centre instead of at the corner
CreateCorridorFromCentre(rs, cs, s, room1Id, room2Id) ==
    LET f1 == FindRoom(rs, room1Id)
        f2 == FindRoom(rs, room2Id)
    IN  IF f1 = <<>> \/ f2 = <<>> THEN [corridors |-> cs, seed |-> s]
        ELSE
        LET center1X == FloorCenterX(f1[1])
            center1Y == FloorCenterY(f1[1])
            center2X == FloorCenterX(f2[1])
            center2Y == FloorCenterY(f2[1])
            s1       == LcgStep(s)
            horiz(y) == IF center1X # center2X
                        THEN <<Segment(center1X, y, center2X, y, room1Id, room2Id)>>
                        ELSE <<>>
            vert(x)  == IF center1Y # center2Y
                        THEN <<Segment(x, center1Y, x, center2Y, room1Id, room2Id)>>
                        ELSE <<>>
        IN  IF s1 < 1073741824
            THEN [corridors |-> cs \o horiz(center1Y) \o vert(center1X), seed |-> s1]
            ELSE [corridors |-> cs \o vert(center1X) \o horiz(center1Y), seed |-> s1]

\* createCorridor: [corridors, seed] after the call
CreateCorridor(rs, cs, s, room1Id, room2Id) ==
    LET f1 == FindRoom(rs, room1Id)
        f2 == FindRoom(rs, room2Id)
    IN  IF f1 = <<>> \/ f2 = <<>> THEN [corridors |-> cs, seed |-> s]
        ELSE
        LET center1X == FloorCenterX(f1[1])
            center1Y == FloorCenterY(f1[1])
            center2X == FloorCenterX(f2[1])
            center2Y == FloorCenterY(f2[1])
            s1       == LcgStep(s)
            horiz(y) == IF center1X # center2X
                        THEN <<Segment(center1X, y, center2X, y, room1Id, room2Id)>>
                        ELSE <<>>
            vert(x)  == IF center1Y # center2Y
                        THEN <<Segment(x, center1Y, x, center2Y, room1Id, room2Id)>>
                        ELSE <<>>
        IN  IF s1 < 1073741824    \* this.rng.next() < 0.5
            THEN [corridors |-> cs \o horiz(center1Y) \o vert(center2X), seed |-> s1]
            ELSE [corridors |-> cs \o vert(center1X) \o horiz(center2Y), seed |-> s1]

\* Variant of getEdgeKey that keeps the order of the two ids
EdgeKeyDirected(room1Id, room2Id) == <<room1Id, room2Id>>

EdgeKey(room1Id, room2Id) ==
    IF room1Id < room2Id THEN <<room1Id, room2Id>> ELSE <<room2Id, room1Id>>

\* The two nested loops of generateCorridorsFromGraph, as the list of
\* (roomId, connectedId) visited: keys in insertion order, lists in order
RECURSIVE GraphEntries(_, _, _)
GraphEntries(g, rs, i) ==
    IF i > Len(rs) THEN <<>>
    ELSE LET id == rs[i].id
         IN  (IF id \in DOMAIN g
              THEN [k \in 1 .. Len(g[id]) |-> <<id, g[id][k]>>]
              ELSE <<>>)
             \o GraphEntries(g, rs, i + 1)

\* The loop body for one (roomId, connectedId); st = [processedEdges,
\* corridors, seed]
RECURSIVE CorridorLoop(_, _, _)
CorridorLoop(rs, entries, st) ==
    IF entries = <<>> THEN st
    ELSE LET edgeKey == EdgeKey(entries[1][1], entries[1][2])
         IN  IF edgeKey \in st.processedEdges
             THEN CorridorLoop(rs, Tail(entries), st)
             ELSE LET made == CreateCorridor(rs, st.corridors, st.seed,
                                             entries[1][1], entries[1][2])
                  IN  CorridorLoop(rs, Tail(entries),
                                   [processedEdges |-> st.processedEdges \cup {edgeKey},
                                    corridors |-> made.corridors,
                                    seed |-> made.seed])

\* [processedEdges, corridors, seed] when generateCorridorsFromGraph returns
GenerateCorridorsFromGraph(rs, g, s) ==
    CorridorLoop(rs, GraphEntries(g, rs, 1),
                 [processedEdges |-> {}, corridors |-> <<>>, seed |-> s])

(***************************************************************************)
(* Step 4: classification.  A Map<number, number> of distances is the      *)
(* sequence of its <<roomId, distance>> entries in insertion order.        *)
(***************************************************************************)
DistHas(distances, id) == \E k \in 1 .. Len(distances) : distances[k][1] = id

\* distances.get(id) ?? 0
DistGet(distances, id) ==
    IF DistHas(distances, id)
    THEN distances[CHOOSE k \in 1 .. Len(distances) : distances[k][1] = id][2]
    ELSE 0

\* The for loop over the neighbours of one dequeued room: <<distances, queue>>
RECURSIVE VisitNeighbors(_, _, _, _)
VisitNeighbors(neighbors, currentDistance, distances, queue) ==
    IF neighbors = <<>> THEN <<distances, queue>>
    ELSE IF DistHas(distances, neighbors[1])
         THEN VisitNeighbors(Tail(neighbors), currentDistance, distances, queue)
         ELSE VisitNeighbors(Tail(neighbors), currentDistance,
                             Append(distances, <<neighbors[1], currentDistance + 1>>),
                             Append(queue, neighbors[1]))

RECURSIVE BfsLoop(_, _, _)
BfsLoop(g, distances, queue) ==
    IF queue = <<>> THEN distances
    ELSE LET currentId == Head(queue)
             neighbors == IF currentId \in DOMAIN g THEN g[currentId] ELSE <<>>
             step      == VisitNeighbors(neighbors, DistGet(distances, currentId),
                                         distances, Tail(queue))
         IN  BfsLoop(g, step[1], step[2])

ComputeGraphDistances(g, sourceId) == BfsLoop(g, <<<<sourceId, 0>>>>, <<sourceId>>)

\* Variant of the boss loop that keeps the last room at the maximum
RECURSIVE FarthestRoomLast(_, _, _, _)
FarthestRoomLast(distances, k, maxDistance, bossRoomId) ==
    IF k > Len(distances) THEN <<maxDistance, bossRoomId>>
    ELSE IF distances[k][2] >= maxDistance
         THEN FarthestRoomLast(distances, k + 1, distances[k][2], distances[k][1])
         ELSE FarthestRoomLast(distances, k + 1, maxDistance, bossRoomId)

\* The loop choosing the boss: <<maxDistance, bossRoomId>>
RECURSIVE FarthestRoom(_, _, _, _)
FarthestRoom(distances, k, maxDistance, bossRoomId) ==
    IF k > Len(distances) THEN <<maxDistance, bossRoomId>>
    ELSE IF distances[k][2] > maxDistance
         THEN FarthestRoom(distances, k + 1, distances[k][2], distances[k][1])
         ELSE FarthestRoom(distances, k + 1, maxDistance, bossRoomId)

\* rooms.filter(...): the positions in the room list, among 1 .. n, of the
\* rooms in `kept`, in list order
RECURSIVE FilterIndices(_, _, _)
FilterIndices(kept, i, n) ==
    IF i > n THEN <<>>
    ELSE (IF i \in kept THEN <<i>> ELSE <<>>) \o FilterIndices(kept, i + 1, n)

\* Variant of the filter that keeps every room
NotOfTypesUnfiltered(rs, types) == FilterIndices(1 .. Len(rs), 1, Len(rs))

\* Positions of the rooms whose type is none of `types`
NotOfTypes(rs, types) ==
    FilterIndices({i \in 1 .. Len(rs) : rs[i].type \notin types}, 1, Len(rs))

SetType(rs, i, type) == [rs EXCEPT ![i].type = type]

\* rooms.find(r => r.id === id) as a position, 0 when there is none
FindIndex(rs, id) ==
    IF \E i \in 1 .. Len(rs) : rs[i].id = id
    THEN CHOOSE i \in 1 .. Len(rs) :
            rs[i].id = id /\ \A j \in 1 .. i - 1 : rs[j].id # id
    ELSE 0

\* Variant of the mid-depth test without the upper limit of 70%
IsMidDepthUpToBoss(depth, maxDistance) ==
    10 * depth > 3 * maxDistance /\ depth <= maxDistance

\* depth > maxDistance * 0.3 && depth < maxDistance * 0.7 (the products are
\* compared exactly: no distance of the model reaches a multiple of 10)
IsMidDepth(depth, maxDistance) ==
    10 * depth > 3 * maxDistance /\ 10 * depth < 7 * maxDistance

\* SeededRandom.shuffle: <<shuffled, seed after>>; i is the 1-based position
RECURSIVE ShuffleLoop(_, _, _)
ShuffleLoop(arr, i, s) ==
    IF i <= 1 THEN <<arr, s>>
    ELSE LET s1 == LcgStep(s)
             j  == FloorMul(s1, i) + 1
         IN  ShuffleLoop([arr EXCEPT ![i] = arr[j], ![j] = arr[i]], i - 1, s1)

Shuffle(arr, s) == ShuffleLoop(arr, Len(arr), s)

\* Variant of the elite loop that records the ids without setting the type
RECURSIVE MarkEliteIdsOnly(_, _, _, _)
MarkEliteIdsOnly(rs, shuffled, i, count) ==
    IF i > count THEN rs
    ELSE MarkEliteIdsOnly(rs, shuffled, i + 1, count)

RECURSIVE MarkElite(_, _, _, _)
MarkElite(rs, shuffled, i, count) ==
    IF i > count THEN rs
    ELSE MarkElite(SetType(rs, shuffled[i], "ELITE"), shuffled, i + 1, count)

\* classifyRooms is written below as its five statements groups, last
\* first; each takes the rooms as left by the one before it (rs0 is the
\* room list on entry, positions are 1-based indices into it).

\* 10% of rooms = ELITE, and the returned object: [rooms, seed, c]
ClassifyElite(rs4, cfg, s, bossRoomId, treasureIdx, shopIdx) ==
    LET eliteCount == Max(0, (Len(rs4) * cfg.eliteRoomPercentage) \div 100)
        remainingRooms ==
            NotOfTypes(rs4, {"SPAWN", "BOSS", "TREASURE", "SHOP"})
        shuffled  == Shuffle(remainingRooms, s)
        taken     == Min(eliteCount, Len(remainingRooms))
    IN  [rooms |-> MarkElite(rs4, shuffled[1], 1, taken),
         seed  |-> shuffled[2],
         c     |-> [spawnRoomId    |-> rs4[1].id,
                    bossRoomId     |-> bossRoomId,
                    treasureRoomId |-> rs4[treasureIdx].id,
                    shopRoomId     |-> IF shopIdx # 0 THEN rs4[shopIdx].id
                                       ELSE rs4[1].id,
                    eliteRoomIds   |-> [k \in 1 .. taken |-> rs4[shuffled[1][k]].id]]]

\* 1 room = SHOP
ClassifyShop(rs3, cfg, s, bossRoomId, treasureIdx) ==
    LET availableRooms ==
            NotOfTypes(rs3, {"SPAWN", "BOSS", "TREASURE"})
        s1      == IF availableRooms # <<>> THEN LcgStep(s) ELSE s
        shopIdx == IF availableRooms # <<>>
                   THEN availableRooms[FloorMul(s1, Len(availableRooms)) + 1]
                   ELSE 0
    IN  ClassifyElite(IF shopIdx # 0 THEN SetType(rs3, shopIdx, "SHOP") ELSE rs3,
                      cfg, s1, bossRoomId, treasureIdx, shopIdx)

\* Random mid-depth room = TREASURE
ClassifyTreasure(rs2, cfg, s, distances, maxDistance, bossRoomId) ==
    LET midDepthRooms ==
            FilterIndices({i \in 1 .. Len(rs2) :
                              IsMidDepth(DistGet(distances, rs2[i].id), maxDistance)},
                          1, Len(rs2))
        s1          == IF midDepthRooms # <<>> THEN LcgStep(s) ELSE s
        treasureIdx == IF midDepthRooms # <<>>
                       THEN midDepthRooms[FloorMul(s1, Len(midDepthRooms)) + 1]
                       ELSE Min(1, Len(rs2) - 1) + 1
    IN  ClassifyShop(SetType(rs2, treasureIdx, "TREASURE"), cfg, s1,
                     bossRoomId, treasureIdx)

\* Farthest room from spawn (by graph distance) = BOSS
ClassifyBoss(rs1, cfg, s, distances) ==
    LET far     == FarthestRoom(distances, 1, 0, rs1[1].id)
        bossIdx == FindIndex(rs1, far[2])
    IN  ClassifyTreasure(IF bossIdx # 0 THEN SetType(rs1, bossIdx, "BOSS") ELSE rs1,
                         cfg, s, distances, far[1], far[2])

\* classifyRooms: [rooms, seed, c] with c the returned object
ClassifyRooms(rs0, g, cfg, s) ==
    ClassifyBoss(SetType(rs0, 1, "SPAWN"), cfg, s,
                 ComputeGraphDistances(g, rs0[1].id))

(***************************************************************************)
(* Step 5: depth.  Step 6: secret room.                                    *)
(***************************************************************************)
ComputeRoomDepth(rs, g, spawnRoomId) ==
    LET distances == ComputeGraphDistances(g, spawnRoomId)
    IN  [i \in 1 .. Len(rs) |-> [rs[i] EXCEPT !.depth = DistGet(distances, rs[i].id)]]

\* this.graph.set(id, list)
GraphSet(g, id, list) ==
    [k \in DOMAIN g \cup {id} |-> IF k = id THEN list ELSE g[k]]

\* generateSecretRoom: [rooms, graph, seed, roomIdCounter]
\* Variant of generateSecretRoom without the guard on the corridor list: with
\* no corridor the secret room is laid on the first room
GenerateSecretRoomUnguarded(rs, cs, g, s, counter) ==
    LET s1       == LcgStep(s)
        corridor == IF Len(cs) = 0
                    THEN Segment(FloorCenterX(rs[1]), FloorCenterY(rs[1]),
                                 FloorCenterX(rs[1]), FloorCenterY(rs[1]),
                                 rs[1].id, rs[1].id)
                    ELSE cs[FloorMul(s1, Len(cs)) + 1]
        midX     == (corridor.x1 + corridor.x2) \div 2
        midY     == (corridor.y1 + corridor.y2) \div 2
        secretRoom == MakeRoom(counter, midX - 3, midY - 3, 6, 6,
                               2 * midX, 2 * midY, "SECRET")
    IN  [rooms |-> Append(rs, secretRoom),
         graph |-> PushNeighbor(GraphSet(g, secretRoom.id, <<corridor.room1Id>>),
                                corridor.room1Id, secretRoom.id),
         seed  |-> s1,
         roomIdCounter |-> counter + 1]

GenerateSecretRoom(rs, cs, g, s, counter) ==
    IF Len(cs) = 0
    THEN [rooms |-> rs, graph |-> g, seed |-> s, roomIdCounter |-> counter]
    ELSE LET s1       == LcgStep(s)
             corridor == cs[FloorMul(s1, Len(cs)) + 1]
             midX     == (corridor.x1 + corridor.x2) \div 2
             midY     == (corridor.y1 + corridor.y2) \div 2
             secretRoom == MakeRoom(counter, midX - 3, midY - 3, 6, 6,
                                    2 * midX, 2 * midY, "SECRET")
         IN  [rooms |-> Append(rs, secretRoom),
              graph |-> PushNeighbor(GraphSet(g, secretRoom.id, <<corridor.room1Id>>),
                                     corridor.room1Id, secretRoom.id),
              seed  |-> s1,
              roomIdCounter |-> counter + 1]

\* The object literal returned by generateDungeon
MakeDungeon(rs, cs, g, c) ==
    [rooms |-> rs, corridors |-> cs, graph |-> g,
     spawnRoomId |-> c.spawnRoomId, bossRoomId |-> c.bossRoomId,
     treasureRoomId |-> c.treasureRoomId, shopRoomId |-> c.shopRoomId,
     eliteRoomIds |-> c.eliteRoomIds,
     secretRoomIds |->
        LET idx == FilterIndices({i \in 1 .. Len(rs) : rs[i].type = "SECRET"},
                                 1, Len(rs))
        IN  [k \in 1 .. Len(idx) |-> rs[idx[k]].id]]

(***************************************************************************)
(* Spatial query surface.                                                  *)
(***************************************************************************)
\* Variant of isInCorridor whose band leaves out its low side
IsInCorridorOpenBand(tileX, tileY, corridor, halfWidth) ==
    IF corridor.y1 = corridor.y2
    THEN /\ tileX >= Min(corridor.x1, corridor.x2)
         /\ tileX <= Max(corridor.x1, corridor.x2)
         /\ tileY > corridor.y1 - halfWidth
         /\ tileY <= corridor.y1 + halfWidth
    ELSE IF corridor.x1 = corridor.x2
    THEN /\ tileY >= Min(corridor.y1, corridor.y2)
         /\ tileY <= Max(corridor.y1, corridor.y2)
         /\ tileX > corridor.x1 - halfWidth
         /\ tileX <= corridor.x1 + halfWidth
    ELSE FALSE

\* Variant of isInCorridor whose band stops short of the two end tiles
IsInCorridorInnerOnly(tileX, tileY, corridor, halfWidth) ==
    IF corridor.y1 = corridor.y2
    THEN /\ tileX > Min(corridor.x1, corridor.x2)
         /\ tileX < Max(corridor.x1, corridor.x2)
         /\ tileY >= corridor.y1 - halfWidth
         /\ tileY <= corridor.y1 + halfWidth
    ELSE IF corridor.x1 = corridor.x2
    THEN /\ tileY > Min(corridor.y1, corridor.y2)
         /\ tileY < Max(corridor.y1, corridor.y2)
         /\ tileX >= corridor.x1 - halfWidth
         /\ tileX <= corridor.x1 + halfWidth
    ELSE FALSE

IsInCorridor(tileX, tileY, corridor, halfWidth) ==
    IF corridor.y1 = corridor.y2
    THEN /\ tileX >= Min(corridor.x1, corridor.x2)
         /\ tileX <= Max(corridor.x1, corridor.x2)
         /\ tileY >= corridor.y1 - halfWidth
         /\ tileY <= corridor.y1 + halfWidth
    ELSE IF corridor.x1 = corridor.x2
    THEN /\ tileY >= Min(corridor.y1, corridor.y2)
         /\ tileY <= Max(corridor.y1, corridor.y2)
         /\ tileX >= corridor.x1 - halfWidth
         /\ tileX <= corridor.x1 + halfWidth
    ELSE FALSE

InRoomRect(tileX, tileY, room) ==
    /\ tileX >= room.x
    /\ tileX < room.x + room.width
    /\ tileY >= room.y
    /\ tileY < room.y + room.height

\* Variant of the ring test whose bottom wall is one row too low
OnRoomRingLowBottom(tileX, tileY, room) ==
    \/ tileX = room.x
    \/ tileX = room.x + room.width - 1
    \/ tileY = room.y
    \/ tileY = room.y + room.height

OnRoomRing(tileX, tileY, room) ==
    \/ tileX = room.x
    \/ tileX = room.x + room.width - 1
    \/ tileY = room.y
    \/ tileY = room.y + room.height - 1

\* isWall over the given rooms and corridors
IsWallIn(rs, cs, corridorWidth, tileX, tileY) ==
    LET halfCorridorWidth == corridorWidth \div 2
    IN  IF \E k \in 1 .. Len(cs) : IsInCorridor(tileX, tileY, cs[k], halfCorridorWidth)
        THEN FALSE
        ELSE IF \E i \in 1 .. Len(rs) : InRoomRect(tileX, tileY, rs[i])
        THEN LET i == CHOOSE i \in 1 .. Len(rs) :
                        /\ InRoomRect(tileX, tileY, rs[i])
                        /\ \A j \in 1 .. i - 1 : ~InRoomRect(tileX, tileY, rs[j])
             IN  OnRoomRing(tileX, tileY, rs[i])
        ELSE TRUE

IsWall(tileX, tileY) == IsWallIn(rooms, corridors, config.corridorWidth, tileX, tileY)

\* The object literal returned by getRandomPositionInRoom, given the margin
\* and the generator states s1, s2 after the draw for x and the draw for y
PositionIn(room, margin, s1, s2) ==
    [x |-> (room.x + margin + FloorMul(s1, Max(0, room.width - margin * 2)))
              * GameConfigTileSize,
     y |-> (room.y + margin + FloorMul(s2, Max(0, room.height - margin * 2)))
              * GameConfigTileSize,
     seed |-> s2]

PositionAfterFirstDraw(room, margin, s1) == PositionIn(room, margin, s1, LcgStep(s1))

\* Variant of getRandomPositionInRoom that takes the margin as given
GetRandomPositionInRoomUnclamped(room, minMargin, s) ==
    PositionAfterFirstDraw(room, minMargin, LcgStep(s))

\* getRandomPositionInRoom on the generator state s: the pixel position and
\* the state after the two draws (x first)
GetRandomPositionInRoom(room, minMargin, s) ==
    PositionAfterFirstDraw(room,
                           Min(minMargin, Min(room.width \div 3, room.height \div 3)),
                           LcgStep(s))

\* The defaults of the parameters minMargin, minDistance (of
\* getMultiplePositionsInRoom), minDistance and maxAttempts (of
\* getPositionFarFrom)
DefaultMargin == 2
DefaultMinSeparation == 64
DefaultFarDistance == 200
DefaultFarAttempts == 20

\* dx^2 + dy^2; Math.sqrt is monotone and exact on squares, so distances
\* are compared through their squares
Dist2(x1, y1, x2, y2) == (x1 - x2) * (x1 - x2) + (y1 - y2) * (y1 - y2)

\* distance < minDistance
CloserThan(d2, minDistance) == minDistance > 0 /\ d2 < minDistance * minDistance

\* Variant of the validity test that looks at the first position found only
ValidPositionFirstOnly(newPos, positions, minDistance) ==
    \A k \in 1 .. Min(1, Len(positions)) :
        ~CloserThan(Dist2(newPos.x, newPos.y, positions[k].x, positions[k].y),
                    minDistance)

\* The for loop over the positions found so far: validPosition
ValidPosition(newPos, positions, minDistance) ==
    \A k \in 1 .. Len(positions) :
        ~CloserThan(Dist2(newPos.x, newPos.y, positions[k].x, positions[k].y),
                    minDistance)

\* One iteration of the while loop of getMultiplePositionsInRoom on
\* st = [positions, attempts, seed], drawn the sample of the iteration
MultiplePositionsStep(st, drawn, minDistance) ==
    [positions |-> IF ValidPosition(drawn, st.positions, minDistance)
                   THEN Append(st.positions, [x |-> drawn.x, y |-> drawn.y])
                   ELSE st.positions,
     attempts  |-> st.attempts + 1,
     seed      |-> drawn.seed]

RECURSIVE MultiplePositionsLoop(_, _, _, _)
MultiplePositionsLoop(room, count, minDistance, st) ==
    IF ~(Len(st.positions) < count /\ st.attempts < count * 10) THEN st
    ELSE MultiplePositionsLoop(room, count, minDistance,
            MultiplePositionsStep(st,
                GetRandomPositionInRoom(room, DefaultMargin, st.seed),
                minDistance))

\* getMultiplePositionsInRoom: the list returned, the number of samples
\* drawn and the generator state after the call
GetMultiplePositionsInRoom(room, count, minDistance, s) ==
    MultiplePositionsLoop(room, count, minDistance,
                          [positions |-> <<>>, attempts |-> 0, seed |-> s])

\* Variant of the iteration of getPositionFarFrom that keeps the first
\* sample as the best one
PositionFarStepKeepFirst(st, drawn, d2, minDistance) ==
    [done          |-> ~CloserThan(d2, minDistance),
     pos           |-> [x |-> drawn.x, y |-> drawn.y],
     bestPos       |-> st.bestPos,
     bestDistance2 |-> st.bestDistance2,
     seed          |-> drawn.seed,
     attempt       |-> st.attempt + 1,
     samples       |-> st.samples + 1]

\* One iteration of the for loop of getPositionFarFrom on st = [bestPos,
\* bestDistance2 (the square of bestDistance), seed, attempt, samples (draws
\* made so far)], drawn the sample of the iteration and d2 the square of its
\* distance; done and pos tell whether and what the iteration returns
PositionFarStep(st, drawn, d2, minDistance) ==
    [done          |-> ~CloserThan(d2, minDistance),
     pos           |-> [x |-> drawn.x, y |-> drawn.y],
     bestPos       |-> IF d2 > st.bestDistance2
                       THEN [x |-> drawn.x, y |-> drawn.y] ELSE st.bestPos,
     bestDistance2 |-> Max(d2, st.bestDistance2),
     seed          |-> drawn.seed,
     attempt       |-> st.attempt + 1,
     samples       |-> st.samples + 1]

PositionFarDraw(st, drawn, fromX, fromY, minDistance) ==
    PositionFarStep(st, drawn, Dist2(drawn.x, drawn.y, fromX, fromY), minDistance)

RECURSIVE PositionFarLoop(_, _, _, _, _, _)
PositionFarLoop(room, fromX, fromY, minDistance, maxAttempts, st) ==
    IF st.done
    THEN [pos |-> st.pos, seed |-> st.seed, samples |-> st.samples]
    ELSE IF st.attempt >= maxAttempts
    THEN [pos |-> st.bestPos, seed |-> st.seed, samples |-> st.samples]
    ELSE PositionFarLoop(room, fromX, fromY, minDistance, maxAttempts,
            PositionFarDraw(st, GetRandomPositionInRoom(room, DefaultMargin, st.seed),
                            fromX, fromY, minDistance))

\* The first sample of getPositionFarFrom, drawn before the loop
PositionFarStart(drawn, fromX, fromY) ==
    [done          |-> FALSE,
     pos           |-> [x |-> drawn.x, y |-> drawn.y],
     bestPos       |-> [x |-> drawn.x, y |-> drawn.y],
     bestDistance2 |-> Dist2(drawn.x, drawn.y, fromX, fromY),
     seed          |-> drawn.seed,
     attempt       |-> 0,
     samples       |-> 1]

\* getPositionFarFrom: the position returned, the generator state after
\* the call and the number of samples drawn
GetPositionFarFrom(room, fromX, fromY, minDistance, maxAttempts, s) ==
    PositionFarLoop(room, fromX, fromY, minDistance, maxAttempts,
        PositionFarStart(GetRandomPositionInRoom(room, DefaultMargin, s),
                         fromX, fromY))

\* 1 + Math.floor(room.depth * this.config.difficultyScaling); no caller of
\* the repository sets difficultyScaling
GetEnemyLevel(room) == 1 + room.depth * DifficultyScalingDefault

\* Math.min(5, 1 + Math.floor(room.depth / 2))
GetLootRarity(room) == Min(5, 1 + room.depth \div 2)

(***************************************************************************)
(* The state machine: construction, then generateDungeon step by step.     *)
(***************************************************************************)
EmptyGraph == [id \in {} |-> <<>>]

\* The fields of a freshly constructed RoomGenerator
Constructed(a, now) ==
    /\ arg = a
    /\ config = ResolveConfig(a, now)
    /\ seed = ResolveConfig(a, now).seed
    /\ rooms = <<>>
    /\ corridors = <<>>
    /\ graph = EmptyGraph
    /\ roomIdCounter = 0
    /\ attempts = 0
    /\ classification = <<>>
    /\ result = <<>>
    /\ pc = "start"
    /\ answer = <<>>
    /\ calls = 0

Init ==
    /\ \E a \in Args : \E now \in NowValues : Constructed(a, now)
    /\ first = <<>>

\* generateDungeon is entered; generateRooms resets its fields
EnterGenerateRooms ==
    /\ pc = "start"
    /\ rooms' = <<>>
    /\ roomIdCounter' = 0
    /\ attempts' = 0
    /\ pc' = "rooms"
    /\ UNCHANGED <<arg, config, seed, corridors, graph, classification, result, first>>
    /\ UNCHANGED <<answer, calls>>

\* Variant of the loop condition that allows one attempt past the budget
MorePlacementOverBudget(rs, att, cfg) ==
    Len(rs) < cfg.roomCount /\ att <= cfg.roomCount * 10

\* The loop condition of generateRooms
MorePlacement(rs, att, cfg) ==
    Len(rs) < cfg.roomCount /\ att < cfg.roomCount * 10

\* One iteration of the while loop of generateRooms
PlacementAttempt ==
    /\ pc = "rooms"
    /\ MorePlacement(rooms, attempts, config)
    /\ LET made == CreateRandomRoom(config, seed, roomIdCounter)
       IN  /\ rooms' = IF ~HasOverlap(made[1], rooms, config.roomSpacing)
                       THEN Append(rooms, made[1])
                       ELSE rooms
           /\ seed' = made[2]
    /\ roomIdCounter' = roomIdCounter + 1
    /\ attempts' = attempts + 1
    /\ UNCHANGED <<arg, config, corridors, graph, classification, result, pc, first>>
    /\ UNCHANGED <<answer, calls>>

\* Variant of the guard that also rejects a single room
NoRoomsPlacedOrOne(rs) == Len(rs) <= 1

\* if (this.rooms.length === 0) throw
NoRoomsPlaced(rs) == Len(rs) = 0

\* generateRooms returns; generateDungeon throws or goes on
LeaveGenerateRooms ==
    /\ pc = "rooms"
    /\ ~MorePlacement(rooms, attempts, config)
    /\ pc' = IF NoRoomsPlaced(rooms) THEN "failed" ELSE "graph"
    /\ UNCHANGED <<arg, config, seed, rooms, corridors, graph, roomIdCounter,
                   attempts, classification, result, first>>
    /\ UNCHANGED <<answer, calls>>

BuildGraphStep ==
    /\ pc = "graph"
    /\ graph' = BuildConnectivityGraph(rooms, config.loopEdgePercentage)
    /\ pc' = "corridors"
    /\ UNCHANGED <<arg, config, seed, rooms, corridors, roomIdCounter, attempts,
                   classification, result, first>>
    /\ UNCHANGED <<answer, calls>>

CorridorStep ==
    /\ pc = "corridors"
    /\ LET made == GenerateCorridorsFromGraph(rooms, graph, seed)
       IN  corridors' = made.corridors /\ seed' = made.seed
    /\ pc' = "classify"
    /\ UNCHANGED <<arg, config, rooms, graph, roomIdCounter, attempts,
                   classification, result, first>>
    /\ UNCHANGED <<answer, calls>>

ClassifyStep ==
    /\ pc = "classify"
    /\ LET made == ClassifyRooms(rooms, graph, config, seed)
       IN  /\ rooms' = made.rooms
           /\ seed' = made.seed
           /\ classification' = <<made.c>>
    /\ pc' = "depth"
    /\ UNCHANGED <<arg, config, corridors, graph, roomIdCounter, attempts, result, first>>
    /\ UNCHANGED <<answer, calls>>

DepthStep ==
    /\ pc = "depth"
    /\ rooms' = ComputeRoomDepth(rooms, graph, classification[1].spawnRoomId)
    /\ pc' = "secret"
    /\ UNCHANGED <<arg, config, seed, corridors, graph, roomIdCounter, attempts,
                   classification, result, first>>
    /\ UNCHANGED <<answer, calls>>

\* Variant of the chance test that always asks for a secret room
SecretChanceAlways(s, secretRoomChance) == TRUE

\* this.rng.next() * 100 < this.config.secretRoomChance, on the state s
\* reached by next()
SecretChanceFires(s, secretRoomChance) == FloorMul(s, 100) < secretRoomChance

SecretStep ==
    /\ pc = "secret"
    /\ LET s1 == LcgStep(seed)
       IN  IF SecretChanceFires(s1, config.secretRoomChance)
           THEN LET made == GenerateSecretRoom(rooms, corridors, graph, s1, roomIdCounter)
                IN  /\ rooms' = made.rooms
                    /\ graph' = made.graph
                    /\ seed' = made.seed
                    /\ roomIdCounter' = made.roomIdCounter
           ELSE /\ seed' = s1
                /\ UNCHANGED <<rooms, graph, roomIdCounter>>
    /\ pc' = "return"
    /\ UNCHANGED <<arg, config, corridors, attempts, classification, result, first>>
    /\ UNCHANGED <<answer, calls>>

ReturnStep ==
    /\ pc = "return"
    /\ result' = <<MakeDungeon(rooms, corridors, graph, classification[1])>>
    /\ pc' = "done"
    /\ UNCHANGED <<arg, config, seed, rooms, corridors, graph, roomIdCounter,
                   attempts, classification, first>>
    /\ UNCHANGED <<answer, calls>>

\* A second, independent instance is constructed from the same argument
ConstructAgain ==
    /\ pc \in {"done", "failed"}
    /\ first = <<>>
    /\ first' = <<[arg |-> arg, pc |-> pc, result |-> result]>>
    /\ \E now \in NowValues :
         /\ arg' = arg
         /\ config' = ResolveConfig(arg, now)
         /\ seed' = ResolveConfig(arg, now).seed
    /\ rooms' = <<>>
    /\ corridors' = <<>>
    /\ graph' = EmptyGraph
    /\ roomIdCounter' = 0
    /\ attempts' = 0
    /\ classification' = <<>>
    /\ result' = <<>>
    /\ pc' = "start"
    /\ answer' = <<>>
    /\ calls' = 0

Next ==
    \/ EnterGenerateRooms
    \/ PlacementAttempt
    \/ LeaveGenerateRooms
    \/ BuildGraphStep
    \/ CorridorStep
    \/ ClassifyStep
    \/ DepthStep
    \/ SecretStep
    \/ ReturnStep
    \/ ConstructAgain

Spec == Init /\ [][Next]_vars

\* The generator alone, its calls running to completion
GenerationNext ==
    \/ EnterGenerateRooms
    \/ PlacementAttempt
    \/ LeaveGenerateRooms
    \/ BuildGraphStep
    \/ CorridorStep
    \/ ClassifyStep
    \/ DepthStep
    \/ SecretStep
    \/ ReturnStep
    \/ ConstructAgain

\* The while loop of generateRooms as seen on its counter and on pc: every
\* PlacementAttempt step is a PlacementTick step, every LeaveGenerateRooms
\* step a PlacementExit step, and each is possible exactly when the other is.
PlacementTick ==
    /\ pc = "rooms"
    /\ MorePlacement(rooms, attempts, config)
    /\ attempts' = attempts + 1
    /\ pc' = pc

PlacementExit ==
    /\ pc = "rooms"
    /\ ~MorePlacement(rooms, attempts, config)
    /\ pc' \in {"graph", "failed"}

\* generateRooms is synchronous code: once entered, its loop keeps running
FairSpec ==
    /\ Init /\ [][GenerationNext]_vars
    /\ WF_<<pc, attempts>>(PlacementTick)
    /\ WF_pc(PlacementExit)

(***************************************************************************)
(* The query surface: calls made on a generator whose generateDungeon has  *)
(* returned.  The rooms handed in are the first and the last room of the   *)
(* dungeon; getRandomPositionInRoom is also given a room of 2 x 1 tiles.   *)
(***************************************************************************)
QueryArgs ==
    {ArgDefaults(Undefined, s) : s \in 0 .. MaxQuerySeed}
        \cup {ArgCrowded(3, s) : s \in 0 .. MaxQuerySeed}

QueryInit ==
    /\ \E a \in QueryArgs : \E now \in NowValues : Constructed(a, now)
    /\ first = <<>>

QueryReady == pc = "done" /\ calls < MaxQueries

QueryRooms == {rooms[1], rooms[Len(rooms)]}

TinyRoom == MakeRoom(0, 1, 1, 2, 1, 4, 3, "COMBAT")

\* The call r returns and leaves the generator in state s
Answered(r, s) ==
    /\ answer' = <<r>>
    /\ seed' = s
    /\ calls' = calls + 1
    /\ UNCHANGED <<arg, config, rooms, corridors, graph, roomIdCounter,
                   attempts, classification, result, pc, first>>

IsWallQuery ==
    /\ QueryReady
    /\ \E room \in QueryRooms :
         \E tile \in {<<room.x, room.y>>, <<FloorCenterX(room), FloorCenterY(room)>>} :
            Answered([op |-> "isWall", tileX |-> tile[1], tileY |-> tile[2],
                      seedBefore |-> seed, value |-> IsWall(tile[1], tile[2])],
                     seed)

GetRandomPositionInRoomQuery ==
    /\ QueryReady
    /\ \E call \in (QueryRooms \X {0, DefaultMargin, BigMargin})
                        \cup {<<TinyRoom, DefaultMargin>>} :
         LET got == GetRandomPositionInRoom(call[1], call[2], seed)
         IN  Answered([op |-> "getRandomPositionInRoom", room |-> call[1],
                       minMargin |-> call[2], seedBefore |-> seed,
                       value |-> [x |-> got.x, y |-> got.y]],
                      got.seed)

GetMultiplePositionsInRoomQuery ==
    /\ QueryReady
    /\ \E room \in QueryRooms :
         \E call \in {<<0, DefaultMinSeparation>>, <<MaxCount, DefaultMinSeparation>>,
                       <<MaxCount, MidDistance>>} :
            LET got == GetMultiplePositionsInRoom(room, call[1], call[2], seed)
            IN  Answered([op |-> "getMultiplePositionsInRoom", room |-> room,
                          count |-> call[1], minDistance |-> call[2],
                          seedBefore |-> seed, value |-> got.positions,
                          samples |-> got.attempts],
                         got.seed)

GetPositionFarFromQuery ==
    /\ QueryReady
    /\ \E room \in QueryRooms :
         \E call \in {<<DefaultFarDistance, DefaultFarAttempts>>,
                       <<MidDistance, FewAttempts>>, <<FarDistance, FewAttempts>>,
                       <<MidDistance, 0>>} :
            LET fromX == room.x * GameConfigTileSize
                fromY == room.y * GameConfigTileSize
                got   == GetPositionFarFrom(room, fromX, fromY, call[1], call[2], seed)
            IN  Answered([op |-> "getPositionFarFrom", room |-> room,
                          fromX |-> fromX, fromY |-> fromY,
                          minDistance |-> call[1], maxAttempts |-> call[2],
                          seedBefore |-> seed, value |-> got.pos,
                          samples |-> got.samples],
                         got.seed)

\* Variant of the getEnemyLevel call that stores the level in the room
GetEnemyLevelQueryStoring ==
    /\ QueryReady
    /\ \E i \in {1, Len(rooms)} :
         /\ answer' = <<[op |-> "getEnemyLevel", room |-> rooms[i],
                         seedBefore |-> seed, value |-> GetEnemyLevel(rooms[i])]>>
         /\ rooms' = [rooms EXCEPT ![i].depth = GetEnemyLevel(rooms[i])]
    /\ calls' = calls + 1
    /\ UNCHANGED <<arg, config, seed, corridors, graph, roomIdCounter,
                   attempts, classification, result, pc, first>>

GetEnemyLevelQuery ==
    /\ QueryReady
    /\ \E room \in QueryRooms :
         Answered([op |-> "getEnemyLevel", room |-> room, seedBefore |-> seed,
                   value |-> GetEnemyLevel(room)],
                  seed)

GetLootRarityQuery ==
    /\ QueryReady
    /\ \E room \in QueryRooms :
         Answered([op |-> "getLootRarity", room |-> room, seedBefore |-> seed,
                   value |-> GetLootRarity(room)],
                  seed)

QueryNext ==
    \/ EnterGenerateRooms
    \/ PlacementAttempt
    \/ LeaveGenerateRooms
    \/ BuildGraphStep
    \/ CorridorStep
    \/ ClassifyStep
    \/ DepthStep
    \/ SecretStep
    \/ ReturnStep
    \/ IsWallQuery
    \/ GetRandomPositionInRoomQuery
    \/ GetMultiplePositionsInRoomQuery
    \/ GetPositionFarFromQuery
    \/ GetEnemyLevelQuery
    \/ GetLootRarityQuery

QuerySpec == QueryInit /\ [][QueryNext]_vars

(***************************************************************************)
(* A SeededRandom on its own: new SeededRandom(seed), then calls of next().*)
(* Only seed, answer and calls are in use; pc is "rng".                    *)
(***************************************************************************)
RngSeeds == (-MaxSeed .. MaxSeed) \cup {-LcgModulusMinus1, LcgModulusMinus1}

RngInit ==
    /\ \E s \in RngSeeds :
         /\ arg = [seed |-> s]
         /\ seed = s
    /\ config = <<>>
    /\ rooms = <<>>
    /\ corridors = <<>>
    /\ graph = EmptyGraph
    /\ roomIdCounter = 0
    /\ attempts = 0
    /\ classification = <<>>
    /\ result = <<>>
    /\ pc = "rng"
    /\ first = <<>>
    /\ answer = <<>>
    /\ calls = 0

\* next(): the state steps, the value returned is state / 2147483648
RngNext ==
    /\ pc = "rng"
    /\ calls < MaxCalls
    /\ seed' = LcgStep(seed)
    /\ answer' = <<[op |-> "next", numerator |-> LcgStep(seed)]>>
    /\ calls' = calls + 1
    /\ UNCHANGED <<arg, config, rooms, corridors, graph, roomIdCounter,
                   attempts, classification, result, pc, first>>

RngSpec == RngInit /\ [][RngNext]_vars

(***************************************************************************)
(* Properties.                                                             *)
(***************************************************************************)
Finished == pc \in {"done", "failed"}
Returned == pc = "done"

\* The rooms accepted by Room Placement (a secret room is appended later)
PlacedRooms == SelectSeq(rooms, LAMBDA r : r.type # "SECRET")
HasSecretRoom == \E i \in 1 .. Len(rooms) : rooms[i].type = "SECRET"

RoomIds(rs) == {rs[i].id : i \in 1 .. Len(rs)}
Neighbors(g, id) == IF id \in DOMAIN g THEN {g[id][k] : k \in 1 .. Len(g[id])} ELSE {}

\* The room ids reachable from the set S by following g
RECURSIVE Reach(_, _)
Reach(g, S) ==
    LET more == S \cup UNION {Neighbors(g, id) : id \in S}
    IN  IF more = S THEN S ELSE Reach(g, more)

\* C1: two independent instances constructed with the same explicit seed and
\* the same configuration end the same way and return identical dungeons
\* (rooms with ids, geometry, types and depths, graph, corridors and the
\* spawn, boss, treasure, shop, elite and secret ids).
C1_SameSeedSameDungeon ==
    (first # <<>> /\ Finished /\ arg.seed # Undefined)
        => (first[1].pc = pc /\ first[1].result = result)

C1_Witness ==
    /\ first # <<>> /\ Returned /\ arg.seed # Undefined
    /\ Len(result[1].rooms) >= 4
    /\ Len(result[1].corridors) >= 3
    /\ result[1].secretRoomIds # <<>>
    /\ first[1].result = result

\* C2: in every returned dungeon every room of the room list, a secret room
\* included, is reachable from the Spawn room through the graph; and right
\* after graph construction the spanning tree has one edge less than there
\* are rooms (Prim's loop did not stop early) and every room is reachable
\* from the first room.
C2_AllRoomsReachable ==
    /\ Returned =>
         RoomIds(result[1].rooms)
            \subseteq Reach(result[1].graph, {result[1].spawnRoomId})
    /\ pc = "corridors" =>
         /\ Len(ComputeMinimumSpanningTree(rooms, ComputeDelaunayTriangulation(rooms)))
              = Len(rooms) - 1
         /\ RoomIds(rooms) \subseteq Reach(graph, {rooms[1].id})

C2_Witness ==
    /\ Returned
    /\ Len(result[1].rooms) >= 5
    /\ result[1].secretRoomIds # <<>>
    /\ RoomIds(result[1].rooms) \subseteq Reach(result[1].graph, {result[1].spawnRoomId})

\* The number of hops from the set S (at distance k) to id, for id reachable
RECURSIVE Hops(_, _, _, _)
Hops(g, S, id, k) ==
    IF id \in S THEN k
    ELSE Hops(g, S \cup UNION {Neighbors(g, x) : x \in S}, id, k + 1)

HopDistance(g, sourceId, id) == Hops(g, {sourceId}, id, 0)

RoomOfId(rs, id) == rs[CHOOSE i \in 1 .. Len(rs) : rs[i].id = id]

\* C3: in every returned dungeon no two distinct rooms of the room list (a
\* secret room included) have rectangles that intersect once one of them is
\* expanded by roomSpacing on all sides.
C3_NoOverlapInDungeon ==
    Returned =>
        \A i, j \in 1 .. Len(result[1].rooms) :
            i # j => ~Overlaps(result[1].rooms[i], result[1].rooms[j],
                               config.roomSpacing)

\* C4: whenever Room Placement accepted at least 3 rooms, the returned
\* spawnRoomId, bossRoomId and treasureRoomId are pairwise distinct.
C4_SpawnBossTreasureDistinct ==
    (Returned /\ Len(PlacedRooms) >= 3) =>
        /\ result[1].spawnRoomId # result[1].bossRoomId
        /\ result[1].spawnRoomId # result[1].treasureRoomId
        /\ result[1].bossRoomId # result[1].treasureRoomId

\* The ids of the rooms of a dungeon that have the given type
IdsOfType(d, type) == {d.rooms[i].id : i \in {k \in 1 .. Len(d.rooms) : d.rooms[k].type = type}}

\* C5: whenever Room Placement accepted at least 4 rooms, the returned dungeon
\* has exactly one SPAWN, one BOSS, one TREASURE and one SHOP room, they are the
\* rooms named by spawnRoomId, bossRoomId, treasureRoomId and shopRoomId, and
\* the four ids are pairwise distinct.
C5_OneRoomPerRole ==
    (Returned /\ Len(PlacedRooms) >= 4) =>
        LET d == result[1]
        IN  /\ IdsOfType(d, "SPAWN") = {d.spawnRoomId}
            /\ IdsOfType(d, "BOSS") = {d.bossRoomId}
            /\ IdsOfType(d, "TREASURE") = {d.treasureRoomId}
            /\ IdsOfType(d, "SHOP") = {d.shopRoomId}
            /\ Cardinality({d.spawnRoomId, d.bossRoomId, d.treasureRoomId,
                            d.shopRoomId}) = 4

\* The position of the first entry of a distance map holding the value v
FirstWithDistance(distances, v) ==
    CHOOSE k \in 1 .. Len(distances) :
        distances[k][2] = v /\ \A j \in 1 .. k - 1 : distances[j][2] # v

\* C6: when classification has run, bossRoomId names a room whose hop
\* distance from Spawn is the maximum over the rooms reachable from Spawn and
\* which is the first room the BFS discovered at that distance; in the returned
\* dungeon no room has a depth above the Boss room's depth; with a single
\* placed room Boss equals Spawn.
C6_BossIsFarthest ==
    /\ pc \in {"depth", "secret"} =>
         LET c         == classification[1]
             reachable == Reach(graph, {c.spawnRoomId})
             bossHops  == HopDistance(graph, c.spawnRoomId, c.bossRoomId)
             order     == ComputeGraphDistances(graph, c.spawnRoomId)
         IN  /\ c.bossRoomId \in reachable
             /\ \A id \in reachable : HopDistance(graph, c.spawnRoomId, id) <= bossHops
             /\ order[FirstWithDistance(order, bossHops)][1] = c.bossRoomId
             /\ Len(rooms) = 1 => c.bossRoomId = c.spawnRoomId
    /\ Returned =>
         \A i \in 1 .. Len(result[1].rooms) :
            result[1].rooms[i].depth
                <= RoomOfId(result[1].rooms, result[1].bossRoomId).depth

C6_Witness ==
    /\ pc = "secret"
    /\ Len(rooms) >= 5
    /\ LET c == classification[1]
           bossHops == HopDistance(graph, c.spawnRoomId, c.bossRoomId)
       IN  /\ bossHops >= 2
           /\ Cardinality({id \in Reach(graph, {c.spawnRoomId}) :
                             HopDistance(graph, c.spawnRoomId, id) = bossHops}) >= 2

\* C7: in the returned dungeon every room reachable from Spawn in the
\* returned graph (a secret room included) has a depth equal to its hop
\* distance from Spawn, and Spawn is the only reachable room of depth 0.
C7_DepthIsHopDistance ==
    Returned =>
        LET d == result[1]
        IN  \A i \in 1 .. Len(d.rooms) :
                d.rooms[i].id \in Reach(d.graph, {d.spawnRoomId}) =>
                    /\ d.rooms[i].depth = HopDistance(d.graph, d.spawnRoomId, d.rooms[i].id)
                    /\ d.rooms[i].depth = 0 => d.rooms[i].id = d.spawnRoomId

\* The tiles of the outermost ring of a room's rectangle
RingTiles(room) ==
    LET xs == room.x .. room.x + room.width - 1
        ys == room.y .. room.y + room.height - 1
    IN  {<<x, y>> : x \in xs, y \in {room.y, room.y + room.height - 1}}
        \cup {<<x, y>> : x \in {room.x, room.x + room.width - 1}, y \in ys}

\* The tiles of the band of a corridor segment: along the axis between the
\* two endpoints, across it at most h away from the centreline.  A segment
\* of one point counts as horizontal.
BandTiles(c, h) ==
    (IF c.y1 = c.y2
     THEN {<<x, y>> : x \in Min(c.x1, c.x2) .. Max(c.x1, c.x2),
                      y \in c.y1 - h .. c.y1 + h}
     ELSE {})
    \cup
    (IF c.x1 = c.x2 /\ c.y1 # c.y2
     THEN {<<x, y>> : x \in c.x1 - h .. c.x1 + h,
                      y \in Min(c.y1, c.y2) .. Max(c.y1, c.y2)}
     ELSE {})

InSomeBand(t) ==
    \E k \in 1 .. Len(corridors) :
        t \in BandTiles(corridors[k], config.corridorWidth \div 2)

InSomeRoom(t) == \E i \in 1 .. Len(rooms) : InRoomRect(t[1], t[2], rooms[i])

\* C8 as stated: after generateDungeon returned, isWall is true for every
\* tile of the outermost ring of every room, the ring tiles under a corridor
\* band included.
C8_EveryRingTileIsWall ==
    Returned =>
        \A i \in 1 .. Len(rooms) :
            \A t \in RingTiles(rooms[i]) : IsWall(t[1], t[2])

\* C8 amended: after generateDungeon returned, a ring tile of a room is a
\* wall exactly when no corridor band passes over it, provided the tile lies
\* in the rectangle of no room earlier in the room list; a ring tile under a
\* corridor band is never a wall.
C8_RingTileIsWallUnlessCorridor ==
    Returned =>
        \A i \in 1 .. Len(rooms) :
            \A t \in RingTiles(rooms[i]) :
                /\ InSomeBand(t) => ~IsWall(t[1], t[2])
                /\ (/\ ~InSomeBand(t)
                    /\ \A j \in 1 .. i - 1 : ~InRoomRect(t[1], t[2], rooms[j]))
                        => IsWall(t[1], t[2])

\* A returned dungeon with corridors where one room has ring tiles on its
\* bottom row of both kinds: a wall away from the bands, open under a band
C8_Witness ==
    /\ Returned
    /\ Len(corridors) >= 2
    /\ \E i \in 1 .. Len(rooms) :
         \E t, u \in RingTiles(rooms[i]) :
            /\ t[2] = rooms[i].y + rooms[i].height - 1
            /\ t[1] # rooms[i].x /\ t[1] # rooms[i].x + rooms[i].width - 1
            /\ ~InSomeBand(t) /\ IsWall(t[1], t[2])
            /\ InSomeBand(u) /\ ~IsWall(u[1], u[2])

\* C9: after generateDungeon returned, for every corridor segment, every
\* tile of its band (along the axis between the two endpoints, at most
\* floor(corridorWidth / 2) across it) that is inside no room rectangle is
\* not a wall.
C9_CorridorBandIsOpen ==
    Returned =>
        \A k \in 1 .. Len(corridors) :
            \A t \in BandTiles(corridors[k], config.corridorWidth \div 2) :
                ~InSomeRoom(t) => ~IsWall(t[1], t[2])

\* A returned dungeon with a band tile outside every room, at the full
\* half width on the low side of the centreline of a band wider than one tile
C9_Witness ==
    /\ Returned
    /\ config.corridorWidth \div 2 >= 1
    /\ \E k \in 1 .. Len(corridors) :
         LET c == corridors[k]
             h == config.corridorWidth \div 2
         IN  \E t \in BandTiles(c, h) :
                /\ ~InSomeRoom(t)
                /\ \/ c.y1 = c.y2 /\ c.x1 # c.x2 /\ t[2] = c.y1 - h
                   \/ c.x1 = c.x2 /\ c.y1 # c.y2 /\ t[1] = c.x1 - h
                /\ ~IsWall(t[1], t[2])

\* C10: generateDungeon throws exactly when Room Placement ended with no
\* room; then no later step has run (no graph, no corridor, no
\* classification, no secret room, the generator state as Room Placement
\* left it) and no Dungeon is returned; in every other case the later steps
\* run on a non-empty room list and the returned Dungeon has rooms.
C10_FailsExactlyOnZeroRooms ==
    /\ pc = "failed" =>
         /\ Len(rooms) = 0
         /\ ~MorePlacement(rooms, attempts, config)
         /\ graph = EmptyGraph
         /\ corridors = <<>>
         /\ classification = <<>>
         /\ result = <<>>
         /\ seed = config.seed
    /\ pc \in {"graph", "corridors", "classify", "depth", "secret", "return", "done"} =>
         Len(rooms) >= 1
    /\ pc = "done" =>
         /\ Len(result) = 1
         /\ Len(result[1].rooms) >= 1
         /\ result[1].rooms = rooms

\* The generator threw: Room Placement of a generator asked for no room
C10_Witness ==
    /\ pc = "failed"
    /\ config.roomCount = 0
    /\ attempts = 0

\* C11: with roomCount = 1 the returned dungeon has exactly one room, which
\* is Spawn, Boss, Treasure and Shop at once, no corridor, no elite room and
\* no secret room, whatever the seed and even when the secret-room chance
\* fires.
C11_SingleRoomDungeon ==
    (Returned /\ config.roomCount = 1) =>
        LET d == result[1]
        IN  /\ Len(d.rooms) = 1
            /\ d.spawnRoomId = d.rooms[1].id
            /\ d.bossRoomId = d.rooms[1].id
            /\ d.treasureRoomId = d.rooms[1].id
            /\ d.shopRoomId = d.rooms[1].id
            /\ d.corridors = <<>>
            /\ d.eliteRoomIds = <<>>
            /\ d.secretRoomIds = <<>>
            /\ d.rooms[1].type # "SECRET"
            /\ DOMAIN d.graph = {d.rooms[1].id}

\* A one-room dungeon returned by a generator whose secret-room chance
\* always fires
C11_Witness ==
    /\ Returned
    /\ config.roomCount = 1
    /\ config.secretRoomChance = 100
    /\ Len(result[1].rooms) = 1

\* The graph as built by buildConnectivityGraph is in the fields, and no
\* secret room has been grafted yet
GraphBuilt == pc \in {"corridors", "classify", "depth", "secret"}

\* The undirected edges of an adjacency map, each as the set of its ends
GraphPairs(g) == UNION {{{a, b} : b \in Neighbors(g, a)} : a \in DOMAIN g}

\* The sum of the lengths of the adjacency lists of the rooms rs[i .. ]
RECURSIVE DegreeSum(_, _, _)
DegreeSum(g, rs, i) ==
    IF i > Len(rs) THEN 0 ELSE Len(g[rs[i].id]) + DegreeSum(g, rs, i + 1)

\* (n - 1) + min(R, floor(R * p / 100)) with R = n(n-1)/2 - (n-1)
ExpectedEdgeCount(n, p) ==
    LET R == (n * (n - 1)) \div 2 - (n - 1)
    IN  (n - 1) + Min(R, (R * p) \div 100)

\* C12: after buildConnectivityGraph over n placed rooms the graph has
\* exactly (n - 1) + min(R, floor(R * loopEdgePercentage / 100)) undirected
\* edges, R = n(n-1)/2 - (n-1), each listed once at both of its ends; for
\* n = 10 and loopEdgePercentage = 15 these are 9 + 5 edges.
C12_EdgeCount ==
    GraphBuilt =>
        LET n == Len(rooms)
            pairs == GraphPairs(graph)
        IN  /\ Cardinality(pairs) = ExpectedEdgeCount(n, config.loopEdgePercentage)
            /\ \A e \in pairs : Cardinality(e) = 2
            /\ DegreeSum(graph, rooms, 1) = 2 * Cardinality(pairs)
            /\ (n = 10 /\ config.loopEdgePercentage = 15) =>
                    Cardinality(pairs) = 9 + 5

\* Ten rooms placed under the default loop percentage, graph just built
C12_Witness ==
    /\ pc = "corridors"
    /\ Len(rooms) = 10
    /\ config.loopEdgePercentage = 15
    /\ Cardinality(GraphPairs(graph)) = 14

\* The candidate edges computed from the room list
CandidateEdges == ComputeDelaunayTriangulation(rooms)

EdgePair(e) == {e.room1Id, e.room2Id}

\* The room ids connected to the set S by the edges es (sets of two ends)
RECURSIVE ReachPairs(_, _)
ReachPairs(es, S) ==
    LET T == S \cup UNION {e \in es : e \cap S # {}}
    IN  IF T = S THEN S ELSE ReachPairs(es, T)

\* The rooms visited before the k-th tree edge is chosen
VisitedBefore(tree, k) ==
    {rooms[1].id} \cup UNION {EdgePair(tree[j]) : j \in 1 .. k - 1}

\* Position of the first candidate with exactly one end in visited, 0 if none
FirstCrossing(edges, visited) ==
    LET crossing == {i \in 1 .. Len(edges) :
                        Cardinality(EdgePair(edges[i]) \cap visited) = 1}
    IN  IF crossing = {} THEN 0
        ELSE CHOOSE i \in crossing : \A j \in crossing : i <= j

\* C19: computeMinimumSpanningTree over n placed rooms returns n - 1 edges
\* that connect all n rooms (hence a tree without cycle), all of them in the
\* graph; the tree is minimal (no candidate edge left out is lighter than an
\* edge of the tree path between its two ends, which is the case exactly
\* when no spanning tree has a smaller total weight); and the k-th edge
\* is the first edge of the weight-sorted candidate list that joins a
\* visited room to an unvisited room.
C19_MinimumSpanningTree ==
    pc = "corridors" =>
        LET n     == Len(rooms)
            cand  == CandidateEdges
            tree  == ComputeMinimumSpanningTree(rooms, cand)
            pairs == {EdgePair(tree[k]) : k \in 1 .. Len(tree)}
        IN  /\ Len(tree) = n - 1
            /\ Cardinality(pairs) = n - 1
            /\ ReachPairs(pairs, {rooms[1].id}) = RoomIds(rooms)
            /\ pairs \subseteq GraphPairs(graph)
            /\ \A i \in 1 .. Len(cand) :
                  EdgePair(cand[i]) \notin pairs =>
                     \A k \in 1 .. Len(tree) :
                        cand[i].room2Id \notin ReachPairs(pairs \ {EdgePair(tree[k])},
                                                          {cand[i].room1Id})
                            => tree[k].weight <= cand[i].weight
            /\ \A k \in 1 .. Len(tree) :
                  LET f == FirstCrossing(cand, VisitedBefore(tree, k))
                  IN  f # 0 /\ cand[f] = tree[k]

\* A graph over at least five rooms, just built, where the tree took a
\* lighter edge after a heavier one and passed over a candidate lighter than
\* one of its edges (both ends already visited), and where one choice was
\* between two connecting candidates of the same weight
C19_Witness ==
    /\ pc = "corridors"
    /\ Len(rooms) >= 5
    /\ LET cand  == CandidateEdges
           tree  == ComputeMinimumSpanningTree(rooms, cand)
           pairs == {EdgePair(tree[j]) : j \in 1 .. Len(tree)}
       IN  /\ \E k \in 2 .. Len(tree) : tree[k].weight < tree[k - 1].weight
           /\ \E k \in 1 .. Len(tree) : \E i \in 1 .. Len(cand) :
                 /\ cand[i].weight < tree[k].weight
                 /\ EdgePair(cand[i]) \notin pairs
           /\ \E k \in 1 .. Len(tree) : \E i \in 1 .. Len(cand) :
                 /\ cand[i] # tree[k]
                 /\ cand[i].weight = tree[k].weight
                 /\ Cardinality(EdgePair(cand[i]) \cap VisitedBefore(tree, k)) = 1

\* floor(m * p / 100) capped at m
LoopEdgeCount(m, p) == Min((m * p) \div 100, m)

\* C20: the loop edges in the graph built by buildConnectivityGraph are
\* exactly the first k edges of the weight-sorted list of the candidates
\* that are not tree edges, k = floor(|remaining| * loopEdgePercentage /
\* 100) capped at |remaining|: none of them is a tree edge and no candidate
\* left out is lighter than one of them.
C20_LoopEdgesAreLightest ==
    pc = "corridors" =>
        LET cand      == CandidateEdges
            tree      == ComputeMinimumSpanningTree(rooms, cand)
            treePairs == {EdgePair(tree[k]) : k \in 1 .. Len(tree)}
            rest      == SelectSeq(cand, LAMBDA e : EdgePair(e) \notin treePairs)
            k         == LoopEdgeCount(Len(rest), config.loopEdgePercentage)
            loops     == GraphPairs(graph) \ treePairs
        IN  /\ Cardinality(loops) = k
            /\ loops = {EdgePair(rest[i]) : i \in 1 .. k}
            /\ loops \cap treePairs = {}
            /\ \A i \in 1 .. Len(rest) :
                  EdgePair(rest[i]) \notin loops =>
                     \A j \in 1 .. Len(rest) :
                        EdgePair(rest[j]) \in loops => rest[j].weight <= rest[i].weight

\* A graph just built with at least two loop edges and at least two
\* candidates left out, one of them strictly heavier than a loop edge
C20_Witness ==
    /\ pc = "corridors"
    /\ LET cand      == CandidateEdges
           tree      == ComputeMinimumSpanningTree(rooms, cand)
           treePairs == {EdgePair(tree[k]) : k \in 1 .. Len(tree)}
           loops     == GraphPairs(graph) \ treePairs
           out       == {i \in 1 .. Len(cand) :
                            EdgePair(cand[i]) \notin GraphPairs(graph)}
       IN  /\ Cardinality(loops) >= 2
           /\ Cardinality(out) >= 2
           /\ \E i \in out : \E j \in 1 .. Len(cand) :
                 EdgePair(cand[j]) \in loops /\ cand[j].weight < cand[i].weight

\* C13: Room Placement terminates; it never makes more than roomCount * 10
\* attempts nor holds more than roomCount rooms, makes no attempt once
\* roomCount rooms are accepted, and when it ends on the attempt budget with
\* between 1 and roomCount - 1 rooms the pipeline goes on to graph
\* construction with them instead of raising an error.
C13_PlacementTerminates ==
    /\ [](/\ attempts <= config.roomCount * 10
          /\ Len(PlacedRooms) <= config.roomCount)
    /\ [][(pc = "rooms" /\ Len(rooms) = config.roomCount)
             => (pc' # "rooms" /\ attempts' = attempts /\ rooms' = rooms)]_vars
    /\ [][(pc = "rooms" /\ pc' # "rooms" /\ Len(rooms) >= 1)
             => pc' = "graph"]_vars
    /\ [][(pc = "rooms" /\ pc' # "rooms" /\ Len(rooms) < config.roomCount)
             => attempts = config.roomCount * 10]_vars
    /\ [][(pc = "rooms" /\ pc' = "rooms") => attempts' = attempts + 1]_vars
    /\ (pc = "rooms") ~> (pc \in {"graph", "failed"})

\* A dungeon returned from a placement that used up its attempt budget with
\* some but not all of the rooms asked for
C13_Witness ==
    /\ Returned
    /\ attempts = config.roomCount * 10
    /\ Len(PlacedRooms) >= 1
    /\ Len(PlacedRooms) < config.roomCount
    /\ Len(result[1].rooms) >= Len(PlacedRooms)

\* C14: for every integer seed, negative ones included, and after any
\* number of calls, the value returned by next() is in [0, 1): the state
\* after the step lies in 0 .. 2147483647.
C14_NextInUnitInterval ==
    (pc = "rng" /\ calls >= 1) =>
        /\ answer[1].numerator >= 0
        /\ answer[1].numerator <= LcgModulusMinus1
        /\ seed = answer[1].numerator

\* The tiles isWall is compared on: the rings of the rooms handed to the
\* queries and the tiles next to their top-left corners
ProbeTiles ==
    UNION {RingTiles(room) \cup {<<room.x + 1, room.y + 1>>, <<room.x - 1, room.y>>}
              : room \in QueryRooms}

C16_PositionInsideMargins ==
    (pc = "done" /\ calls >= 1 /\ answer[1].op = "getRandomPositionInRoom") =>
        LET room == answer[1].room
            m    == Min(answer[1].minMargin,
                        Min(room.width \div 3, room.height \div 3))
            tx   == answer[1].value.x \div GameConfigTileSize
            ty   == answer[1].value.y \div GameConfigTileSize
        IN  /\ answer[1].value.x = tx * GameConfigTileSize
            /\ answer[1].value.y = ty * GameConfigTileSize
            /\ room.x + m <= room.x + room.width - 1 - m
            /\ room.y + m <= room.y + room.height - 1 - m
            /\ room.x + m <= tx /\ tx <= room.x + room.width - 1 - m
            /\ room.y + m <= ty /\ ty <= room.y + room.height - 1 - m
            /\ InRoomRect(tx, ty, room)

\* A call whose margin was clamped, by the width and the height differently,
\* and that returned a tile on the upper end of its range
C16_Witness ==
    /\ pc = "done"
    /\ calls >= 1
    /\ answer[1].op = "getRandomPositionInRoom"
    /\ LET room == answer[1].room
           m    == Min(answer[1].minMargin,
                       Min(room.width \div 3, room.height \div 3))
       IN  /\ m < answer[1].minMargin
           /\ room.width \div 3 # room.height \div 3
           /\ \/ answer[1].value.x = (room.x + room.width - 1 - m) * GameConfigTileSize
              \/ answer[1].value.y = (room.y + room.height - 1 - m) * GameConfigTileSize

\* The first n samples drawn by a call that starts on the generator state
\* s, each with the generator state after it
RECURSIVE SamplesFrom(_, _, _)
SamplesFrom(room, s, n) ==
    IF n = 0 THEN <<>>
    ELSE <<GetRandomPositionInRoom(room, DefaultMargin, s)>>
         \o SamplesFrom(room, GetRandomPositionInRoom(room, DefaultMargin, s).seed,
                        n - 1)

SamePosition(p, q) == p.x = q.x /\ p.y = q.y

\* The samples drawn by the getPositionFarFrom call recorded in answer, and
\* the squares of their distances from the given point
FarSamples == SamplesFrom(answer[1].room, answer[1].seedBefore, answer[1].samples)
FarDist2(p) == Dist2(p.x, p.y, answer[1].fromX, answer[1].fromY)
FarReaches(p) == ~CloserThan(FarDist2(p), answer[1].minDistance)

FarCall == pc = "done" /\ calls >= 1 /\ answer[1].op = "getPositionFarFrom"

\* C17 as stated: getPositionFarFrom returns a position; it draws at most
\* maxAttempts samples; it returns the first drawn sample at distance >=
\* minDistance, drawing nothing after it; when no drawn sample is that far
\* it returns the farthest drawn sample.
C17_FirstFarSampleOfMaxAttempts ==
    FarCall =>
        LET ds == FarSamples
            n  == Len(ds)
            reaching == {k \in 1 .. n : FarReaches(ds[k])}
        IN  /\ n <= answer[1].maxAttempts
            /\ reaching # {} =>
                  /\ reaching = {n}
                  /\ SamePosition(answer[1].value, ds[n])
            /\ reaching = {} =>
                  \E k \in 1 .. n :
                     /\ SamePosition(answer[1].value, ds[k])
                     /\ \A j \in 1 .. n : FarDist2(ds[j]) <= FarDist2(ds[k])

\* C17 amended: getPositionFarFrom returns a position; it draws one sample
\* before its loop, which is not compared with minDistance, and then at most
\* maxAttempts samples, so at most maxAttempts + 1; it returns the first
\* sample of the loop at distance >= minDistance, drawing nothing after it;
\* when no sample of the loop is that far it has drawn maxAttempts + 1
\* samples and returns the farthest of them, the earliest one among equally
\* far samples.
C17_FirstFarLoopSampleElseFarthest ==
    FarCall =>
        LET ds == FarSamples
            n  == Len(ds)
            reaching == {k \in 2 .. n : FarReaches(ds[k])}
        IN  /\ n >= 1
            /\ n <= answer[1].maxAttempts + 1
            /\ seed = ds[n].seed
            /\ reaching # {} =>
                  /\ reaching = {n}
                  /\ SamePosition(answer[1].value, ds[n])
            /\ reaching = {} =>
                  /\ n = Max(answer[1].maxAttempts, 0) + 1
                  /\ \E k \in 1 .. n :
                        /\ SamePosition(answer[1].value, ds[k])
                        /\ \A j \in 1 .. n : FarDist2(ds[j]) <= FarDist2(ds[k])
                        /\ \A j \in 1 .. k - 1 : FarDist2(ds[j]) < FarDist2(ds[k])

\* A call that returned a later sample although its first sample was far
\* enough, and that drew more than maxAttempts samples
C17_Witness ==
    /\ FarCall
    /\ answer[1].maxAttempts >= 2
    /\ Len(FarSamples) = answer[1].maxAttempts + 1
    /\ FarReaches(FarSamples[1])
    /\ FarReaches(FarSamples[Len(FarSamples)])
    /\ ~SamePosition(answer[1].value, FarSamples[1])

MultiCall == pc = "done" /\ calls >= 1 /\ answer[1].op = "getMultiplePositionsInRoom"

\* C18: getMultiplePositionsInRoom(room, count, minSeparation) ends after
\* at most count * 10 samples and returns at most count points, every two
\* of them at distance >= minSeparation; with fewer than count points found
\* it returns the shorter list (after count * 10 samples) instead of
\* raising an error.  Every point returned is one of the samples drawn, in
\* the order drawn.
C18_SeparatedPositions ==
    MultiCall =>
        LET ps == answer[1].value
            n  == answer[1].samples
            ds == SamplesFrom(answer[1].room, answer[1].seedBefore, n)
        IN  /\ n <= answer[1].count * 10
            /\ Len(ps) <= answer[1].count
            /\ \A i, j \in 1 .. Len(ps) :
                  i # j => ~CloserThan(Dist2(ps[i].x, ps[i].y, ps[j].x, ps[j].y),
                                       answer[1].minDistance)
            /\ Len(ps) < answer[1].count => n = answer[1].count * 10
            /\ Len(ps) = answer[1].count =>
                  (n = 0 \/ SamePosition(ps[Len(ps)], ds[n]))
            /\ \A i \in 1 .. Len(ps) : \E k \in 1 .. n : SamePosition(ps[i], ds[k])
            /\ n > 0 => seed = ds[n].seed
            /\ n = 0 => seed = answer[1].seedBefore

\* A call that used up its count * 10 samples and returned some points but
\* fewer than asked for, after rejecting a sample that was too close
C18_Witness ==
    /\ MultiCall
    /\ answer[1].count >= 3
    /\ Len(answer[1].value) >= 2
    /\ Len(answer[1].value) < answer[1].count
    /\ answer[1].samples = answer[1].count * 10

\* The graph is in the fields: built, and possibly grafted with a secret room
GraphPresent == pc \in {"corridors", "classify", "depth", "secret", "return", "done"}

\* C21: after graph construction, and still after a secret room is grafted,
\* the connectivity graph is a simple undirected graph over the room list:
\* its keys are exactly the room ids, B is in the list of A exactly when A
\* is in the list of B, no room lists itself, and no id appears twice in
\* one adjacency list.
C21_SimpleUndirectedGraph ==
    GraphPresent =>
        /\ DOMAIN graph = RoomIds(rooms)
        /\ \A a \in DOMAIN graph :
              /\ Neighbors(graph, a) \subseteq DOMAIN graph
              /\ a \notin Neighbors(graph, a)
              /\ Cardinality(Neighbors(graph, a)) = Len(graph[a])
              /\ \A b \in DOMAIN graph :
                    (b \in Neighbors(graph, a)) <=> (a \in Neighbors(graph, b))

\* A returned dungeon whose graph holds loop edges beside the tree and a
\* grafted secret room
C21_Witness ==
    /\ pc = "done"
    /\ HasSecretRoom
    /\ Len(rooms) >= 5
    /\ Cardinality(GraphPairs(graph)) > Len(rooms) - 1

\* The corridor list is that of generateCorridorsFromGraph, and the graph
\* is still the one it was made from
CorridorsFromGraph == pc \in {"classify", "depth", "secret"}

\* The positions in the corridor list of the segments made for the edge a-b
SegmentsOf(a, b) ==
    {k \in 1 .. Len(corridors) : {corridors[k].room1Id, corridors[k].room2Id} = {a, b}}

IsHorizontal(c) == c.y1 = c.y2 /\ c.x1 # c.x2
IsVertical(c)   == c.x1 = c.x2 /\ c.y1 # c.y2

\* C22: generateCorridorsFromGraph handles each undirected edge of the graph
\* once (not once per direction) and emits one or two segments for it: the
\* segments of an edge are adjacent in the list and carry the same ordered
\* pair of room ids; every segment is labelled with the two ids of a graph
\* edge and is horizontal or vertical, never a point and never diagonal.
C22_OneOrTwoSegmentsPerEdge ==
    CorridorsFromGraph =>
        /\ \A e \in GraphPairs(graph) :
              \E a, b \in e :
                 LET ks == SegmentsOf(a, b)
                 IN  /\ e = {a, b}
                     /\ Cardinality(ks) \in {1, 2}
                     /\ \A k \in ks : corridors[k].room1Id = a /\ corridors[k].room2Id = b
                     /\ \A k, l \in ks : k - l \in {-1, 0, 1}
        /\ \A k \in 1 .. Len(corridors) :
              /\ {corridors[k].room1Id, corridors[k].room2Id} \in GraphPairs(graph)
              /\ corridors[k].room1Id # corridors[k].room2Id
              /\ IsHorizontal(corridors[k]) \/ IsVertical(corridors[k])

\* Corridors just made, one edge rendered by a single straight segment and
\* another by two
C22_Witness ==
    /\ pc = "classify"
    /\ \E e \in GraphPairs(graph) : \E a, b \in e :
          e = {a, b} /\ Cardinality(SegmentsOf(a, b)) = 1
    /\ \E e \in GraphPairs(graph) : \E a, b \in e :
          e = {a, b} /\ Cardinality(SegmentsOf(a, b)) = 2

\* The corridor list cs from position i on, read edge by edge against the
\* coin flips drawn from the state s: the segments of one edge are the one
\* or two adjacent segments with the same label; with two segments the
\* first is horizontal exactly when the flip is below one half.  The value
\* is <<TRUE, seed after the last flip>> or <<FALSE, s>>.
RECURSIVE FlipsMatch(_, _, _)
FlipsMatch(cs, i, s) ==
    IF i > Len(cs) THEN <<TRUE, s>>
    ELSE LET s1  == LcgStep(s)
             two == /\ i < Len(cs)
                    /\ cs[i + 1].room1Id = cs[i].room1Id
                    /\ cs[i + 1].room2Id = cs[i].room2Id
         IN  IF two /\ (IsHorizontal(cs[i]) # (s1 < 1073741824))
             THEN <<FALSE, s>>
             ELSE FlipsMatch(cs, IF two THEN i + 2 ELSE i + 1, s1)

\* C23: the segments made for a graph edge (A, B), in emission order, form
\* a chain from the floored centre of A to the floored centre of B: the
\* first starts at A's centre, the last ends at B's centre, with two
\* segments the first ends where the second starts, at (B.cx, A.cy) when
\* the coin flip chose horizontal-first and at (A.cx, B.cy) when it chose
\* vertical-first; one flip is drawn per edge.
C23_CorridorChain ==
    /\ [](CorridorsFromGraph =>
            \A k \in 1 .. Len(corridors) :
               LET c  == corridors[k]
                   A  == RoomOfId(rooms, c.room1Id)
                   B  == RoomOfId(rooms, c.room2Id)
                   ks == SegmentsOf(c.room1Id, c.room2Id)
                   isFirst == \A l \in ks : l >= k
                   isLast  == \A l \in ks : l <= k
               IN  /\ isFirst => c.x1 = FloorCenterX(A) /\ c.y1 = FloorCenterY(A)
                   /\ isLast  => c.x2 = FloorCenterX(B) /\ c.y2 = FloorCenterY(B)
                   /\ (isFirst /\ ~isLast) =>
                         /\ c.x2 = corridors[k + 1].x1
                         /\ c.y2 = corridors[k + 1].y1
                         /\ IsHorizontal(c) =>
                               c.x2 = FloorCenterX(B) /\ c.y2 = FloorCenterY(A)
                         /\ IsVertical(c) =>
                               c.x2 = FloorCenterX(A) /\ c.y2 = FloorCenterY(B))
    /\ [][pc = "corridors" =>
             FlipsMatch(corridors', 1, seed) = <<TRUE, seed'>>]_vars

\* Corridors just made with an elbow of each kind: one edge rendered
\* horizontal-first and another vertical-first
C23_Witness ==
    /\ pc = "classify"
    /\ \E k, l \in 1 .. Len(corridors) - 1 :
          /\ corridors[k].room1Id = corridors[k + 1].room1Id
          /\ corridors[k].room2Id = corridors[k + 1].room2Id
          /\ corridors[l].room1Id = corridors[l + 1].room1Id
          /\ corridors[l].room2Id = corridors[l + 1].room2Id
          /\ IsHorizontal(corridors[k]) /\ IsVertical(corridors[k + 1])
          /\ IsVertical(corridors[l]) /\ IsHorizontal(corridors[l + 1])

\* At least d free tiles lie between a and b along the x axis or the y axis
SeparatedBy(a, b, d) ==
    \/ a.x + a.width + d <= b.x
    \/ b.x + b.width + d <= a.x
    \/ a.y + a.height + d <= b.y
    \/ b.y + b.height + d <= a.y

\* The tiles of a room's rectangle expanded by d on all sides
ExpandedTiles(room, d) ==
    {<<x, y>> : x \in room.x - d .. room.x + room.width + d - 1,
                y \in room.y - d .. room.y + room.height + d - 1}

RoomTiles(room) == ExpandedTiles(room, 0)

\* C24: during Room Placement a candidate is appended to the room list only
\* if its rectangle expanded by roomSpacing on all sides intersects no
\* accepted room, so any two accepted rooms are separated by at least
\* roomSpacing tiles along the x axis or the y axis; a candidate that is
\* not accepted leaves the room list as it was.
C24_AcceptedRoomsKeepSpacing ==
    /\ [](pc \in {"rooms", "graph", "corridors"} =>
            \A i, j \in 1 .. Len(rooms) :
               i # j => SeparatedBy(rooms[i], rooms[j], config.roomSpacing))
    /\ [][pc = "rooms" =>
            \/ rooms' = rooms
            \/ /\ Len(rooms') = Len(rooms) + 1
               /\ SubSeq(rooms', 1, Len(rooms)) = rooms
               /\ attempts' = attempts + 1
               /\ \A i \in 1 .. Len(rooms) :
                     ExpandedTiles(rooms'[Len(rooms')], config.roomSpacing)
                         \cap RoomTiles(rooms[i]) = {}]_vars
    /\ [][(pc = "rooms" /\ attempts' = attempts + 1 /\ rooms' = rooms) =>
            \E i \in 1 .. Len(rooms) :
               ExpandedTiles(CreateRandomRoom(config, seed, roomIdCounter)[1],
                             config.roomSpacing)
                   \cap RoomTiles(rooms[i]) # {}]_vars

\* Placement under way with three rooms accepted, two of them exactly
\* roomSpacing apart, and a candidate rejected
C24_Witness ==
    /\ pc = "rooms"
    /\ Len(rooms) >= 3
    /\ attempts > Len(rooms)
    /\ \E i, j \in 1 .. Len(rooms) :
          /\ i # j
          /\ SeparatedBy(rooms[i], rooms[j], config.roomSpacing)
          /\ ~SeparatedBy(rooms[i], rooms[j], config.roomSpacing + 1)

\* The classification is made (and, once returned, copied into the Dungeon)
Classified == pc \in {"depth", "secret", "return", "done"}

\* The ids named by the classification in the fields, or by the Dungeon
\* once it is returned
Roles == IF pc = "done" THEN result[1] ELSE classification[1]

\* The placed rooms whose hop distance from Spawn lies strictly between 30%
\* and 70% of the hop distance D of the Boss room
MidDepthIds ==
    LET spawn == PlacedRooms[1].id
        D     == HopDistance(graph, spawn, Roles.bossRoomId)
    IN  {id \in RoomIds(PlacedRooms) :
            LET d == HopDistance(graph, spawn, id)
            IN  3 * D < 10 * d /\ 10 * d < 7 * D}

\* C25: with D the Boss room's BFS distance from Spawn, if some room has a
\* BFS distance strictly between 0.3 * D and 0.7 * D then treasureRoomId
\* names one of those rooms (neither Spawn nor Boss); otherwise it names
\* the second-placed room, or the only room when there is just one.
C25_TreasureMidDepthOrSecond ==
    Classified =>
        LET mid == MidDepthIds
        IN  /\ mid # {} =>
                  /\ Roles.treasureRoomId \in mid
                  /\ Roles.treasureRoomId # Roles.spawnRoomId
                  /\ Roles.treasureRoomId # Roles.bossRoomId
            /\ (mid = {} /\ Len(PlacedRooms) >= 2) =>
                  Roles.treasureRoomId = PlacedRooms[2].id
            /\ (mid = {} /\ Len(PlacedRooms) = 1) =>
                  Roles.treasureRoomId = PlacedRooms[1].id

\* A returned dungeon with several mid-depth rooms, the Treasure drawn among
\* them and not the first of them in the room list
C25_Witness ==
    /\ pc = "done"
    /\ Cardinality(MidDepthIds) >= 2
    /\ \E id \in MidDepthIds : id < result[1].treasureRoomId
    /\ result[1].treasureRoomId \in MidDepthIds

\* The placed rooms that are none of Spawn, Boss and Treasure
OtherThanThree ==
    RoomIds(PlacedRooms)
        \ {Roles.spawnRoomId, Roles.bossRoomId, Roles.treasureRoomId}

\* C26: shopRoomId differs from spawnRoomId, bossRoomId and treasureRoomId
\* whenever the room list classified holds a room other than those three,
\* and equals spawnRoomId exactly when there is no such room; in that case
\* no room has type SHOP, and the classification is returned all the same.
C26_ShopOrSpawnFallback ==
    Classified =>
        /\ OtherThanThree # {} =>
              /\ Roles.shopRoomId \in OtherThanThree
              /\ RoomOfId(rooms, Roles.shopRoomId).type = "SHOP"
        /\ (Roles.shopRoomId = Roles.spawnRoomId) <=> (OtherThanThree = {})
        /\ OtherThanThree = {} =>
              \A i \in 1 .. Len(rooms) : rooms[i].type # "SHOP"
        /\ Cardinality({i \in 1 .. Len(rooms) : rooms[i].type = "SHOP"}) <= 1

\* A dungeon returned with three placed rooms holding the three roles, the
\* Shop defaulted to Spawn
C26_Witness ==
    /\ pc = "done"
    /\ Len(PlacedRooms) = 3
    /\ Cardinality({result[1].spawnRoomId, result[1].bossRoomId,
                    result[1].treasureRoomId}) = 3
    /\ result[1].shopRoomId = result[1].spawnRoomId

\* The placed rooms left unclassified once Spawn, Boss, Treasure and Shop
\* are assigned
Unclassified ==
    RoomIds(PlacedRooms)
        \ {Roles.spawnRoomId, Roles.bossRoomId, Roles.treasureRoomId,
           Roles.shopRoomId}

\* C27: eliteRoomIds holds pairwise distinct ids of rooms left unclassified
\* after Spawn, Boss, Treasure and Shop were assigned, these rooms and no
\* others have type ELITE, and the list has floor(n * eliteRoomPercentage /
\* 100) entries for n placed rooms when that many unclassified rooms
\* remain, and all the unclassified rooms otherwise.
C27_EliteRooms ==
    Classified =>
        LET el   == Roles.eliteRoomIds
            ids  == {el[k] : k \in 1 .. Len(el)}
            want == (Len(PlacedRooms) * config.eliteRoomPercentage) \div 100
        IN  /\ Cardinality(ids) = Len(el)
            /\ ids \subseteq Unclassified
            /\ \A i \in 1 .. Len(rooms) :
                  (rooms[i].type = "ELITE") <=> (rooms[i].id \in ids)
            /\ want <= Cardinality(Unclassified) => Len(el) = want
            /\ want > Cardinality(Unclassified) => ids = Unclassified

\* A returned dungeon with several elite rooms, fewer than the unclassified
\* rooms they were drawn among, and listed out of room order
C27_Witness ==
    /\ pc = "done"
    /\ Len(result[1].eliteRoomIds) >= 3
    /\ Cardinality(Unclassified) > Len(result[1].eliteRoomIds)
    /\ result[1].eliteRoomIds[1] > result[1].eliteRoomIds[2]

SecretPositions == {i \in 1 .. Len(rooms) : rooms[i].type = "SECRET"}

\* The ids of the two rooms a corridor segment joins
CorridorEnds == UNION {{corridors[k].room1Id, corridors[k].room2Id}
                          : k \in 1 .. Len(corridors)}

\* C28: one generation adds at most one Secret room, on the outcome of one
\* random draw compared with secretRoomChance, never with secretRoomChance
\* 0 and never with an empty corridor list; when it is added its id is new
\* among the room ids, its type is SECRET, secretRoomIds is exactly its id,
\* the graph gains exactly one undirected edge, from it to an endpoint room
\* of an existing corridor, and the corridor list and the spawn, boss,
\* treasure, shop and elite ids stay as they were.
C28_AtMostOneSecretRoom ==
    /\ [][pc = "secret" =>
            LET draw  == FloorMul(LcgStep(seed), 100)
                added == rooms' # rooms
            IN  /\ added <=> (draw < config.secretRoomChance /\ corridors # <<>>)
                /\ corridors' = corridors
                /\ classification' = classification
                /\ ~added => graph' = graph /\ seed' = LcgStep(seed)
                /\ added =>
                     LET new == rooms'[Len(rooms')]
                     IN  /\ rooms' = Append(rooms, new)
                         /\ new.type = "SECRET"
                         /\ new.id \notin RoomIds(rooms)
                         /\ config.secretRoomChance > 0
                         /\ DOMAIN graph' = DOMAIN graph \cup {new.id}
                         /\ Len(graph'[new.id]) = 1
                         /\ graph'[new.id][1] \in CorridorEnds
                         /\ \A a \in DOMAIN graph :
                               graph'[a] = IF a = graph'[new.id][1]
                                           THEN Append(graph[a], new.id)
                                           ELSE graph[a]]_vars
    /\ [](pc \in {"start", "rooms", "graph", "corridors", "classify", "depth", "secret"}
             => SecretPositions = {})
    /\ [](pc \in {"return", "done"} => Cardinality(SecretPositions) <= 1)
    /\ [](pc = "done" =>
             /\ result[1].secretRoomIds = [k \in 1 .. Cardinality(SecretPositions) |->
                                              rooms[Len(rooms)].id]
             /\ result[1].corridors = corridors
             /\ result[1].spawnRoomId = classification[1].spawnRoomId
             /\ result[1].bossRoomId = classification[1].bossRoomId
             /\ result[1].treasureRoomId = classification[1].treasureRoomId
             /\ result[1].shopRoomId = classification[1].shopRoomId
             /\ result[1].eliteRoomIds = classification[1].eliteRoomIds
             /\ (config.secretRoomChance = 0 \/ corridors = <<>>) => SecretPositions = {})

\* A dungeon returned with its secret room, whose id is not the next after
\* the placed rooms' ids, linked to a room that had two neighbours or more
C28_Witness ==
    /\ pc = "done"
    /\ result[1].secretRoomIds # <<>>
    /\ result[1].secretRoomIds[1] > Len(rooms) - 1
    /\ config.secretRoomChance < 100
    /\ Len(graph[graph[result[1].secretRoomIds[1]][1]]) >= 3

CentreTile(room) == <<FloorCenterX(room), FloorCenterY(room)>>

\* The tile t lies on the centreline of the segment c, between its ends
OnLine(t, c) ==
    \/ /\ c.y1 = c.y2 /\ t[2] = c.y1
       /\ Min(c.x1, c.x2) <= t[1] /\ t[1] <= Max(c.x1, c.x2)
    \/ /\ c.x1 = c.x2 /\ t[1] = c.x1
       /\ Min(c.y1, c.y2) <= t[2] /\ t[2] <= Max(c.y1, c.y2)

\* Two segments whose centrelines have a tile in common: an end of one lies
\* on the other
Touching(c, d) ==
    \/ OnLine(<<d.x1, d.y1>>, c) \/ OnLine(<<d.x2, d.y2>>, c)
    \/ OnLine(<<c.x1, c.y1>>, d) \/ OnLine(<<c.x2, c.y2>>, d)

\* The segments joined to those of S through touching centrelines
RECURSIVE LinesFrom(_)
LinesFrom(S) ==
    LET more == S \cup {l \in 1 .. Len(corridors) :
                           \E k \in S : Touching(corridors[k], corridors[l])}
    IN  IF more = S THEN S ELSE LinesFrom(more)

\* C29: in every generated dungeon the floored centre tile of every room, a
\* secret room included, is a non-wall tile joined to the Spawn room's
\* floored centre tile by a path of 4-adjacent non-wall tiles.  The path
\* shown runs along corridor centrelines: every centreline tile tests
\* isWall = false, the centres lie on centrelines, and the centrelines
\* carrying the centres are joined through common tiles.
C29_CentresJoinedByOpenTiles ==
    pc = "done" =>
        LET spawn  == CentreTile(rooms[1])
            start  == {k \in 1 .. Len(corridors) : OnLine(spawn, corridors[k])}
            joined == LinesFrom(start)
        IN  /\ \A k \in 1 .. Len(corridors) :
                  \A t \in BandTiles(corridors[k], 0) : ~IsWall(t[1], t[2])
            /\ \A i \in 1 .. Len(rooms) :
                  /\ ~IsWall(FloorCenterX(rooms[i]), FloorCenterY(rooms[i]))
                  /\ \/ CentreTile(rooms[i]) = spawn
                     \/ \E l \in joined : OnLine(CentreTile(rooms[i]), corridors[l])

\* A returned dungeon of five rooms or more with a secret room whose centre
\* is no other room's centre, and a corridor of width 1
C29_Witness ==
    /\ pc = "done"
    /\ Len(rooms) >= 5
    /\ HasSecretRoom
    /\ config.corridorWidth = 1
    /\ \A i \in 1 .. Len(rooms) - 1 : CentreTile(rooms[i]) # CentreTile(rooms[Len(rooms)])

\* C30: whenever roomCount >= 1 the first placement candidate is accepted,
\* so generateDungeon never fails for want of rooms, the room list is not
\* empty once the first attempt is made, the Spawn room is the first room
\* of the list and has id 0, and the room ids strictly increase along the
\* list, all below the id counter: an id taken by a rejected candidate is
\* skipped and never given again.
C30_FirstCandidateAccepted ==
    config.roomCount >= 1 =>
        /\ pc # "failed"
        /\ (pc = "rooms" /\ attempts = 0) => rooms = <<>> /\ MorePlacement(rooms, attempts, config)
        /\ (pc \notin {"start", "rooms"} \/ (pc = "rooms" /\ attempts >= 1)) =>
              /\ Len(rooms) >= 1
              /\ rooms[1].id = 0
              /\ \A i \in 1 .. Len(rooms) - 1 : rooms[i].id < rooms[i + 1].id
              /\ \A i \in 1 .. Len(rooms) : rooms[i].id < roomIdCounter
              /\ roomIdCounter = attempts + Cardinality(SecretPositions)
        /\ Classified =>
              /\ Roles.spawnRoomId = 0
              /\ Roles.spawnRoomId = rooms[1].id

\* A returned dungeon in whose room list an id is skipped between two
\* placed rooms, with a secret room after them
C30_Witness ==
    /\ pc = "done"
    /\ HasSecretRoom
    /\ \E i \in 1 .. Len(rooms) - 2 : rooms[i + 1].id > rooms[i].id + 1
    /\ result[1].spawnRoomId = 0

====
